---- MODULE Spec2Model ----
(***************************************************************************)
(* A model of dafny-tasker: the oracle-guided minimization engine          *)
(* (minimize.py), the lexical span/site scanners it rests on (focus.py)    *)
(* and the request path of the protocol client (lsp.py).                   *)
(*                                                                         *)
(* A document is a sequence of lines, a line a sequence of tokens.  Line   *)
(* indices are the 0-based indices of the Python code; At/Slice/DelSlice   *)
(* translate them to TLA+ sequences.                                       *)
(***************************************************************************)
EXTENDS Integers, Sequences, FiniteSets

-----------------------------------------------------------------------------
(* Tokens.  Each token stands for a fixed piece of Dafny text:             *)
(*   Open "{"   Close "}"   Lemma(n) "lemma n()"   Method(n) "method n()"  *)
(*   AxLemma(n) "lemma {:axiom} n()"   AssertStmt(v) "assert v > 0;"           *)
(*   CallTo(n) "n();"   Stmt "var z := 1;"   Calc "calc"   Forall "forall x" *)
(*   Ensures "ensures P"                                                   *)

Tok(t, a) == [t |-> t, a |-> a]
Open == Tok("{", "")
Close == Tok("}", "")
Lemma(n) == Tok("lemma", n)
Method(n) == Tok("method", n)
AxLemma(n) == Tok("axlemma", n)
AssertStmt(v) == Tok("assert", v)
CallTo(n) == Tok("call", n)
Stmt == Tok("stmt", "")
Calc == Tok("calc", "")
Forall == Tok("forall", "")
Ensures == Tok("ensures", "")
Module(n) == Tok("module", n)
\* a blank at the start or at the end of a line
Blank == Tok(" ", "")

None == <<>>

Min(S) == CHOOSE x \in S : \A y \in S : x <= y
MinOf(a, b) == IF a <= b THEN a ELSE b

\* Python lines[i]
At(lines, i) == lines[i + 1]
\* Python lines[a:b] for 0 <= a
Slice(lines, a, b) == SubSeq(lines, a + 1, MinOf(b, Len(lines)))
\* Python del lines[a:b] for 0 <= a (an empty slice when b <= a)
DelSlice(lines, a, b) ==
    IF b <= a THEN lines
    ELSE Slice(lines, 0, a) \o Slice(lines, b, Len(lines))

-----------------------------------------------------------------------------
(* Character-level views of a line, as str.count and the `in` tests of     *)
(* focus.py see them.                                                      *)

CountOpen(ln) == Cardinality({k \in 1..Len(ln) : ln[k].t \in {"{", "axlemma"}})
CountClose(ln) == Cardinality({k \in 1..Len(ln) : ln[k].t \in {"}", "axlemma"}})
HasOpen(ln) == CountOpen(ln) > 0
HasSemi(ln) == \E k \in 1..Len(ln) : ln[k].t \in {"assert", "call", "stmt"}
EndsWithSemi(ln) == Len(ln) > 0 /\ ln[Len(ln)].t \in {"assert", "call", "stmt"}
\* a statement keyword may be preceded only by blanks or by "... {"
HeadPos(ln, k) == k = 1 \/ ln[k - 1] = Open

\* len(line) - len(line.lstrip())
indent_len(ln) ==
    Min({k \in 1..Len(ln) : ln[k] # Blank} \cup {Len(ln) + 1}) - 1

\* str.strip
strip(ln) ==
    LET solid == {k \in 1..Len(ln) : ln[k] # Blank}
    IN  IF solid = {} THEN <<>>
        ELSE SubSeq(ln, Min(solid), CHOOSE k \in solid : \A j \in solid : j <= k)

\* ASSERT_RE = ^\s*(?:.*\{\s*)?assert\b.*;\s*(?://.*)?$
ASSERT_RE(line) ==
    LET ln == strip(line)
    IN  /\ EndsWithSemi(ln)
        /\ \E k \in 1..Len(ln) : ln[k].t = "assert" /\ HeadPos(ln, k)

\* CALL_RE = ^\s*(?:.*\{\s*)?(?P<callee>[A-Za-z_]\w*)\s*\(.*\)\s*;\s*(?://.*)?$
CALL_RE(line) ==
    LET ln == strip(line)
    IN  /\ Len(ln) > 0
        /\ ln[Len(ln)].t = "call"
        /\ \E k \in 1..Len(ln) : ln[k].t = "call" /\ HeadPos(ln, k)

\* CALC_RE = ^\s*calc\s*(==|>=|<=|>|<)?\s*\{
CALC_RE(line) ==
    LET ln == strip(line)
    IN  Len(ln) >= 2 /\ ln[1] = Calc /\ ln[2] = Open

\* FORALL_RE = ^\s*forall\s+
FORALL_RE(line) ==
    LET ln == strip(line)
    IN  Len(ln) >= 1 /\ ln[1] = Forall

-----------------------------------------------------------------------------
(* Brace scanners.                                                         *)

RECURSIVE Depth(_, _, _)
\* the running depth accumulated over lines a..k
Depth(lines, a, k) ==
    IF k < a THEN 0
    ELSE Depth(lines, a, k - 1) + CountOpen(At(lines, k)) - CountClose(At(lines, k))

_brace_body_bounds_any_open(lines, start_line, end_line) ==
    LET hi == MinOf(end_line + 1, Len(lines))
        opens == {j \in start_line..(hi - 1) : HasOpen(At(lines, j))}
    IN  IF opens = {} THEN None
        ELSE LET brace_open == Min(opens)
                 closes == {k \in brace_open..(hi - 1) : Depth(lines, brace_open, k) = 0}
             IN  IF closes = {} THEN None ELSE <<brace_open, Min(closes)>>

_brace_body_bounds(lines, start_line, end_line) ==
    LET hi == MinOf(end_line + 1, Len(lines))
        opens == {j \in start_line..(hi - 1) :
                    CountOpen(At(lines, j)) > CountClose(At(lines, j))}
    IN  IF opens = {} THEN None
        ELSE LET brace_open == Min(opens)
                 closes == {k \in brace_open..(hi - 1) : Depth(lines, brace_open, k) = 0}
             IN  IF closes = {} THEN None ELSE <<brace_open, Min(closes)>>

\* the end index of the block, or None (the text is Slice(lines, start_idx, end + 1))
_find_brace_balanced_block(lines, start_idx) ==
    IF start_idx >= Len(lines) THEN None
    ELSE IF ~HasOpen(At(lines, start_idx)) THEN None
    ELSE LET closes == {i \in start_idx..(Len(lines) - 1) : Depth(lines, start_idx, i) = 0}
         IN  IF closes = {} THEN None ELSE <<Min(closes)>>

-----------------------------------------------------------------------------
(* The outline the server returns for a document (lsp_outline.py flattens  *)
(* it to name/kind/range records).  The server parses the text: a          *)
(* declaration's range runs from its header line to the line closing its   *)
(* body, or is the header line alone when it has no body.                  *)

IsDecl(tok) == tok.t \in {"lemma", "method", "axlemma"}
IsDeclLine(lines, i) == \E k \in 1..Len(At(lines, i)) : IsDecl(At(lines, i)[k])
DeclName(ln) == ln[Min({k \in 1..Len(ln) : IsDecl(ln[k])})].a
NextDecl(lines, i) ==
    Min({j \in (i + 1)..(Len(lines) - 1) : IsDeclLine(lines, j)} \cup {Len(lines)})

SymbolEnd(lines, i) ==
    LET n == NextDecl(lines, i)
        opens == {j \in i..(n - 1) : \E k \in 1..Len(At(lines, j)) : At(lines, j)[k] = Open}
    IN  IF opens = {} THEN i
        ELSE LET b == Min(opens)
                 closes == {k \in b..(n - 1) : Depth(lines, b, k) = 0}
             IN  IF closes = {} THEN n - 1 ELSE Min(closes)

RECURSIVE SymbolsFrom(_, _)
SymbolsFrom(lines, i) ==
    IF i >= Len(lines) THEN <<>>
    ELSE IF IsDeclLine(lines, i)
         THEN <<[name |-> DeclName(At(lines, i)), sl |-> i, el |-> SymbolEnd(lines, i)]>>
              \o SymbolsFrom(lines, i + 1)
         ELSE SymbolsFrom(lines, i + 1)

document_symbols(lines) == SymbolsFrom(lines, 0)

-----------------------------------------------------------------------------
(* Target resolution.                                                      *)

\* re.search(r'\b(lemma|method)\s+([A-Za-z_]\w*)', hdr + " " + hdr2): the first
\* "lemma n" / "method n" on line sl or the line after it; "lemma {:axiom} n"
\* does not match
_header_kind_name(lines, sl) ==
    LET hdr == IF sl < Len(lines) THEN At(lines, sl) ELSE <<>>
        hdr2 == IF sl + 1 < Len(lines) THEN At(lines, sl + 1) ELSE <<>>
        both == hdr \o hdr2
        hits == {k \in 1..Len(both) : both[k].t \in {"lemma", "method"}}
    IN  IF hits = {} THEN <<"", "">> ELSE <<both[Min(hits)].t, both[Min(hits)].a>>

\* syms is what document_symbols(path) returned
_find_target_lemma_range(syms, lemma_name, lines) ==
    LET ok == {k \in 1..Len(syms) :
                 /\ _header_kind_name(lines, syms[k].sl)[1] = "lemma"
                 /\ syms[k].name = lemma_name
                 /\ _brace_body_bounds(lines, syms[k].sl, syms[k].el) # None}
    IN  IF ok = {} THEN None
        ELSE LET s == syms[Min(ok)]
                 body == _brace_body_bounds(lines, s.sl, s.el)
             IN  <<s.sl, s.el, body[1], body[2]>>

\* list_lemmas: the names of the symbols whose header reads as a lemma
RECURSIVE LemmaNames(_, _, _)
LemmaNames(syms, lines, k) ==
    IF k > Len(syms) THEN <<>>
    ELSE (IF _header_kind_name(lines, syms[k].sl)[1] = "lemma"
          THEN <<syms[k].name>> ELSE <<>>) \o LemmaNames(syms, lines, k + 1)

list_lemmas(lines) == LemmaNames(document_symbols(lines), lines, 1)

-----------------------------------------------------------------------------
(* Site discovery.                                                         *)

ForallLookahead == 5

Site(line_idx, end_idx, kind, original) ==
    [line_idx |-> line_idx, end_idx |-> end_idx, kind |-> kind, original |-> original]

\* the declaration line the server resolves a callee to (goto_definition),
\* or None
DefinitionOf(lines, callee) ==
    LET ds == {j \in 0..(Len(lines) - 1) :
                  IsDeclLine(lines, j) /\ DeclName(At(lines, j)) = callee}
    IN  IF ds = {} THEN None ELSE <<Min(ds)>>

\* "lemma" among the blank-separated words of the definition line and the
\* line after it, "(" and "{" read as blanks
header_contains_lemma(lines, def_line0) ==
    LET hdr == IF def_line0 < Len(lines) THEN At(lines, def_line0) ELSE <<>>
        hdr2 == IF def_line0 + 1 < Len(lines) THEN At(lines, def_line0 + 1) ELSE <<>>
        both == hdr \o hdr2
    IN  \E k \in 1..Len(both) : both[k].t \in {"lemma", "axlemma"}

\* the callee CALL_RE captures: the call after the last "{" that has one in
\* front of it, else the call the line starts with
Callee(line) ==
    LET ln == strip(line)
        after == {k \in 2..Len(ln) : ln[k].t = "call" /\ ln[k - 1] = Open}
    IN  IF after # {} THEN ln[CHOOSE k \in after : \A j \in after : j <= k].a ELSE ln[1].a

\* the line holding the first "{" within the lookahead, None when a ";"
\* comes first or neither is found
ForallBraceLine(lines, i) ==
    LET hits == {j \in i..(MinOf(i + ForallLookahead, Len(lines)) - 1) :
                    HasOpen(At(lines, j)) \/ HasSemi(At(lines, j))}
    IN  IF hits = {} THEN None
        ELSE IF HasOpen(At(lines, Min(hits))) THEN <<Min(hits)>> ELSE None

\* resolved is the set of lines at which the definition query gives an answer
IsLemmaCall(lines, i, resolved) ==
    /\ CALL_RE(At(lines, i))
    /\ i \in resolved
    /\ DefinitionOf(lines, Callee(At(lines, i))) # None
    /\ header_contains_lemma(lines, DefinitionOf(lines, Callee(At(lines, i)))[1])

AfterSiteNextLine(i, end_idx) == i + 1

\* i = end_idx + 1: the scan goes on behind a block site
AfterSite(i, end_idx) == end_idx + 1

RECURSIVE EnumerateFrom(_, _, _, _, _)
EnumerateFrom(lines, i, bend, extract_types, resolved) ==
    IF i > bend THEN <<>>
    ELSE
      LET ln == At(lines, i)
          calcBlock == IF "calc" \in extract_types /\ CALC_RE(ln)
                       THEN _find_brace_balanced_block(lines, i) ELSE None
          brace_line == IF "forall" \in extract_types /\ FORALL_RE(ln)
                        THEN ForallBraceLine(lines, i) ELSE None
          forallBlock == IF brace_line # None
                         THEN _find_brace_balanced_block(lines, brace_line[1]) ELSE None
      IN  IF "assert" \in extract_types /\ ASSERT_RE(ln)
          THEN <<Site(i, i, "assert", <<ln>>)>>
               \o EnumerateFrom(lines, i + 1, bend, extract_types, resolved)
          ELSE IF calcBlock # None
          THEN <<Site(i, calcBlock[1], "calc", Slice(lines, i, calcBlock[1] + 1))>>
               \o EnumerateFrom(lines, AfterSite(i, calcBlock[1]), bend, extract_types, resolved)
          ELSE IF forallBlock # None
          THEN <<Site(i, forallBlock[1], "forall", Slice(lines, i, forallBlock[1] + 1))>>
               \o EnumerateFrom(lines, AfterSite(i, forallBlock[1]), bend, extract_types,
                                resolved)
          ELSE IF "lemma-call" \in extract_types /\ IsLemmaCall(lines, i, resolved)
          THEN <<Site(i, i, "lemma-call", <<ln>>)>>
               \o EnumerateFrom(lines, i + 1, bend, extract_types, resolved)
          ELSE EnumerateFrom(lines, i + 1, bend, extract_types, resolved)

_enumerate_sites(lines, bstart, bend, extract_types, resolved) ==
    EnumerateFrom(lines, bstart, bend, extract_types, resolved)

-----------------------------------------------------------------------------
(* The document rewriter.                                                  *)

RECURSIVE Flatten(_)
Flatten(ss) == IF ss = <<>> THEN <<>> ELSE Head(ss) \o Flatten(Tail(ss))

\* header text up to its first "{", with {:axiom} put after the first "lemma"
_inject_axiom_in_header(header) ==
    LET braces == {k \in 1..Len(header) : header[k].t \in {"{", "axlemma"}}
        cut == IF braces = {} THEN header
               ELSE LET b == Min(braces)
                    IN  SubSeq(header, 1, b - 1)
                        \o (IF header[b].t = "axlemma" THEN <<Lemma("")>> ELSE <<>>)
        lems == {k \in 1..Len(cut) : cut[k].t = "lemma"}
    IN  IF lems = {} THEN cut
        ELSE [cut EXCEPT ![Min(lems)] = AxLemma(cut[Min(lems)].a)]

\* Python out[a:b] = [x]
ReplaceSlice(out, a, b, x) ==
    Slice(out, 0, a) \o <<x>> \o Slice(out, (IF b < a THEN a ELSE b), Len(out))

RECURSIVE EditsFrom(_, _, _, _)
EditsFrom(syms, lines, target_body, k) ==
    IF k > Len(syms) THEN <<>>
    ELSE
      LET s == syms[k]
          body == _brace_body_bounds(lines, s.sl, s.el)
          rest == EditsFrom(syms, lines, target_body, k + 1)
      IN  IF _header_kind_name(lines, s.sl)[1] # "lemma" THEN rest
          ELSE IF body = None THEN rest
          ELSE IF ~(body[2] < target_body[1] \/ body[1] > target_body[2]) THEN rest
          ELSE <<[sl |-> s.sl, be |-> body[2],
                  new_header |-> _inject_axiom_in_header(
                                     Flatten([j \in 1..(body[1] + 1 - s.sl) |->
                                                 strip(At(lines, s.sl + j - 1))]))]>> \o rest

\* sorted(edits, key=start line, reverse=True); the sort is stable
RECURSIVE SortDescending(_)
SortDescending(edits) ==
    IF edits = <<>> THEN <<>>
    ELSE LET top == Min({k \in 1..Len(edits) : \A j \in 1..Len(edits) : edits[j].sl <= edits[k].sl})
         IN  <<edits[top]>>
             \o SortDescending(SubSeq(edits, 1, top - 1) \o SubSeq(edits, top + 1, Len(edits)))

RECURSIVE ApplyEdits(_, _)
ApplyEdits(out, edits) ==
    IF edits = <<>> THEN out
    ELSE ApplyEdits(ReplaceSlice(out, Head(edits).sl, Head(edits).be + 1, Head(edits).new_header),
                    Tail(edits))

\* history: the lines each out[sl:be+1] = [new_header] replaces, in the order
\* the edits are applied
RECURSIVE Replaced(_, _)
Replaced(out, edits) ==
    IF edits = <<>> THEN <<>>
    ELSE <<Slice(out, Head(edits).sl, Head(edits).be + 1)>>
         \o Replaced(ReplaceSlice(out, Head(edits).sl, Head(edits).be + 1,
                                  Head(edits).new_header),
                     Tail(edits))

_axiomatize_other_lemmas(syms, lines, target_body) ==
    ApplyEdits(lines, SortDescending(EditsFrom(syms, lines, target_body, 1)))

-----------------------------------------------------------------------------
(* Text files.  A written text is "\n".join(lines) plus "\n" when nl; this *)
(* is what str.splitlines() makes of it when it is read back.  A line      *)
(* without tokens is the empty string.                                     *)

splitlines_of_join(lines, nl) ==
    IF nl THEN (IF lines = <<>> THEN << <<>> >> ELSE lines)
    ELSE IF lines # <<>> /\ lines[Len(lines)] = <<>> THEN SubSeq(lines, 1, Len(lines) - 1)
    ELSE lines

-----------------------------------------------------------------------------
(* Input documents.                                                        *)

\* Scenario A, one statement per line
DocScenarioA ==
    << <<Lemma("L")>>, <<Open>>, <<AssertStmt("x")>>, <<AssertStmt("y")>>, <<Close>> >>
\* Scenario A as the specification writes it: lemma L() { assert x > 0; assert y > 0; }
DocScenarioAInline ==
    << <<Lemma("L"), Open, AssertStmt("x"), AssertStmt("y"), Close>> >>
\* statements sharing their line with the body's braces
DocSharedBraces ==
    << <<Lemma("L")>>, <<Open, AssertStmt("x")>>, <<AssertStmt("y"), Close>> >>
\* two lemmas, the second calling the first
DocTwoLemmas ==
    << <<Lemma("A")>>, <<Open>>, <<AssertStmt("x")>>, <<Close>>,
       <<Lemma("L"), Open>>, <<AssertStmt("y")>>, <<CallTo("A")>>, <<Close>> >>
\* single-line sites around a calculation block and a quantifier block
DocBlocks ==
    << <<Lemma("L"), Open>>, <<AssertStmt("x")>>,
       <<Calc, Open>>, <<Stmt>>, <<Close>>,
       <<Forall>>, <<Ensures, Open>>, <<Close>>,
       <<AssertStmt("y")>>, <<Close>> >>

\* a header line that is itself an assertion site, and a calculation line
\* closing more braces than it opens
DocUnbalanced ==
    << <<Lemma("L"), Open, AssertStmt("x")>>, <<Calc, Open, Close, Close>>, <<Open>> >>

Docs == {DocScenarioA, DocScenarioAInline, DocSharedBraces, DocTwoLemmas, DocBlocks,
         DocUnbalanced}

\* the lemmas argument of minimize_file; given = FALSE is lemmas=None
LemmaArgs ==
    { [given |-> FALSE, names |-> <<>>],
      [given |-> TRUE, names |-> <<"L">>],
      [given |-> TRUE, names |-> <<"L", "A">>],
      [given |-> TRUE, names |-> <<"Z", "L">>] }

DefaultTypes == {"assert", "lemma-call"}
AllTypes == {"assert", "lemma-call", "calc", "forall"}
ExtractTypeSets == {DefaultTypes, AllTypes}

\* what subprocess.run(["dafny", "verify", ...]) can do
OracleOutcomes == {"exit0", "nonzero", "timeout", "crash"}

verify_dafny_file_timeout_passes(outcome) == outcome \in {"exit0", "timeout"}

\* verify_dafny_file: True only for a run that ends with return code 0
verify_dafny_file(outcome) == outcome = "exit0"

-----------------------------------------------------------------------------
(* State.                                                                  *)

VARIABLES
    input_lines,      \* the input file, as splitlines() reads it
    input_nl,         \* whether the input file's text ends with a line terminator
    lemmas_arg,       \* minimize_file's lemmas argument
    modular,          \* minimize_file's modular argument
    extract_types,    \* minimize_file's extract_types argument
    fpc,              \* minimize_file: "start", "loop", "done", "error", "raised"
    lemmas,           \* minimize_file: the list being processed
    unit,             \* minimize_file: position in lemmas of the current unit
    mf_current_lines, \* minimize_file: current_lines
    all_reports,      \* minimize_file: all_reports
    output,           \* the output file: [written, lines, nl]
    mpc,              \* minimize_lemma: "idle", "TryEmpty", "GreedyReduce"
    lines,            \* minimize_lemma: lines (read from the unit's file)
    lines_for_lsp,    \* minimize_lemma: lines_for_lsp
    body,             \* minimize_lemma: <<bstart, bend>>
    empty_lines,      \* minimize_lemma: empty_lines
    sites,            \* minimize_lemma: sites (records updated in place)
    step,             \* minimize_lemma: iteration of the greedy loop
    ml_current_lines, \* minimize_lemma: current_lines
    removed_sites,    \* minimize_lemma: removed_sites
    kept_sites,       \* minimize_lemma: kept_sites
    last_outcome,     \* how the latest verifier run ended
    discovered,       \* history: the site list as _enumerate_sites returned it
    trials,           \* history: the oracle calls of the current unit
    given,            \* history: the document each unit was given
    returned,         \* history: the document each unit returned
    tmp_files,        \* the temporary documents that exist in the input's directory
    fs_writes,        \* history: the paths written so far
    srv_alive,        \* the server process runs
    srv_out_open,     \* the server holds its stdout open
    srv_err_open,     \* the server holds its stderr open
    inbox,            \* ids of the requests the server has read and not answered
    wire,             \* frames written to stdout and not yet read by the listener
    err_buf,          \* number of diagnostic chunks written to stderr
    sent,             \* number of frames the server has written
    reader,           \* _read_loop: "running" or "stopped"
    _rx,              \* LspClient._rx
    _notif,           \* LspClient._notif
    next_id,          \* the next fresh request id (uuid4)
    cpc,              \* per caller, where its request call is
    req_id,           \* per caller, req_id
    reply,            \* per caller, what request returned or raised with
    tail,             \* per caller, the stderr text attached to its TimeoutError
    calls,            \* number of client calls started on the session
    shut,             \* per caller, shutdown: "no", "request", "returned", "raised"
    nres,             \* per caller, how its latest notify ended
    dpc,              \* pop_notifications: "idle" or "draining"
    out,              \* pop_notifications: out
    decoded,          \* history: the messages the listener decoded
    taken,            \* history: the messages request took from _rx, and what came of it
    drains,           \* history: the lists pop_notifications returned
    qpc,              \* document_symbols / goto_definition: where the call is
    q_fn,             \* which of the two functions is running
    q_exc,            \* the exception on its way out of the try block ("none": none)
    q_session,        \* the session of the running call (0: none)
    q_result,         \* how the latest call ended
    sessions,         \* history: every session opened, [fn, queries, shutdown, left]
    cli_cmd,          \* the subcommand
    cli_lemma,        \* whether --lemma was given
    cli_file,         \* position of the current file in uniq
    cli_pc,           \* the file loop: "lemmas", "process", "done", "aborted"
    cli_log,          \* history: what became of each file
    f_fn,             \* the function of focus.py that was called, or "none"
    f_lines,          \* the document it was called on
    f_nl,             \* whether the document's text ends with a line terminator
    f_arg,            \* its other arguments
    f_out             \* what it returned

vars == <<input_lines, input_nl, lemmas_arg, modular, extract_types, fpc, lemmas, unit,
          mf_current_lines, all_reports, output, mpc, lines, lines_for_lsp, body,
          empty_lines, sites, step, ml_current_lines, removed_sites, kept_sites,
          last_outcome, discovered, trials, given, returned, tmp_files, fs_writes,
          srv_alive, srv_out_open, srv_err_open, inbox, wire, err_buf, sent, reader,
          _rx, _notif, next_id, cpc, req_id, reply, tail,
          calls, shut, nres, dpc, out, decoded, taken, drains,
          qpc, q_fn, q_exc, q_session, q_result, sessions,
          cli_cmd, cli_lemma, cli_file, cli_pc, cli_log,
          f_fn, f_lines, f_nl, f_arg, f_out>>

lsp_vars == <<srv_alive, srv_out_open, srv_err_open, inbox, wire, err_buf, sent, reader,
              _rx, _notif, next_id, cpc, req_id, reply, tail,
              calls, shut, nres, dpc, out, decoded, taken, drains>>

minimize_vars == <<input_lines, input_nl, lemmas_arg, modular, extract_types, fpc, lemmas, unit,
                   mf_current_lines, all_reports, output, mpc, lines, lines_for_lsp, body,
                   empty_lines, sites, step, ml_current_lines, removed_sites, kept_sites,
                   last_outcome, discovered, trials, given, returned, tmp_files, fs_writes>>

inputs == <<input_lines, input_nl, lemmas_arg, modular, extract_types>>

query_vars == <<qpc, q_fn, q_exc, q_session, q_result, sessions>>

cli_vars == <<cli_cmd, cli_lemma, cli_file, cli_pc, cli_log>>

focus_vars == <<f_fn, f_lines, f_nl, f_arg, f_out>>

beyond_minimize == <<lsp_vars, query_vars, cli_vars, focus_vars>>
beyond_lsp == <<minimize_vars, query_vars, cli_vars, focus_vars>>
beyond_query == <<minimize_vars, lsp_vars, cli_vars, focus_vars>>
beyond_cli == <<minimize_vars, lsp_vars, query_vars, focus_vars>>
beyond_focus == <<minimize_vars, lsp_vars, query_vars, cli_vars>>
unit_vars == <<lines, lines_for_lsp, body, empty_lines, sites, step, ml_current_lines,
               removed_sites, kept_sites, discovered>>

NoOutput == [written |-> FALSE, lines |-> <<>>, nl |-> FALSE]

Callers == {"c1", "c2"}

\* a session right after LspClient.__init__
SessionInit ==
    /\ srv_alive = TRUE
    /\ srv_out_open = TRUE
    /\ srv_err_open = TRUE
    /\ inbox = {}
    /\ wire = <<>>
    /\ err_buf = 0
    /\ sent = 0
    /\ reader = "running"
    /\ _rx = <<>>
    /\ _notif = <<>>
    /\ next_id = 1
    /\ cpc = [c \in Callers |-> "idle"]
    /\ req_id = [c \in Callers |-> 0]
    /\ reply = [c \in Callers |-> [kind |-> "none", id |-> 0]]
    /\ tail = [c \in Callers |-> 0]
    /\ calls = 0
    /\ shut = [c \in Callers |-> "no"]
    /\ nres = [c \in Callers |-> "none"]
    /\ dpc = "idle"
    /\ out = <<>>
    /\ decoded = <<>>
    /\ taken = <<>>
    /\ drains = <<>>

\* no call of document_symbols or goto_definition has been made
QueryInit ==
    /\ qpc = "idle"
    /\ q_fn = "none"
    /\ q_exc = "none"
    /\ q_session = 0
    /\ q_result = "none"
    /\ sessions = <<>>

\* no function of focus.py has been called
FocusIdle ==
    /\ f_fn = "none"
    /\ f_lines = <<>>
    /\ f_nl = FALSE
    /\ f_arg = <<>>
    /\ f_out = <<>>

\* a subcommand at the top of its loop over the input files
CliStart ==
    /\ cli_file = 1
    /\ cli_pc = "lemmas"
    /\ cli_log = <<>>

\* dafny-tasker minimize without --lemma
CliMinimize ==
    /\ cli_cmd = "minimize"
    /\ cli_lemma = FALSE
    /\ CliStart

\* minimize_file about to be called
MinimizeInit ==
    /\ fpc = "start"
    /\ lemmas = <<>>
    /\ unit = 1
    /\ mf_current_lines = <<>>
    /\ all_reports = <<>>
    /\ output = NoOutput
    /\ mpc = "idle"
    /\ lines = <<>>
    /\ lines_for_lsp = <<>>
    /\ body = <<0, 0>>
    /\ empty_lines = <<>>
    /\ sites = <<>>
    /\ step = 0
    /\ ml_current_lines = <<>>
    /\ removed_sites = <<>>
    /\ kept_sites = <<>>
    /\ last_outcome = "none"
    /\ discovered = <<>>
    /\ trials = <<>>
    /\ given = <<>>
    /\ returned = <<>>
    /\ tmp_files = {}
    /\ fs_writes = {}

Init ==
    /\ input_lines \in Docs
    /\ input_nl \in BOOLEAN
    /\ lemmas_arg \in LemmaArgs
    /\ modular \in BOOLEAN
    /\ extract_types \in ExtractTypeSets
    /\ MinimizeInit
    /\ SessionInit
    /\ QueryInit
    /\ CliMinimize
    /\ FocusIdle

-----------------------------------------------------------------------------
(* Reports.  kind tells the four shapes minimize_lemma returns apart:      *)
(* "error" {"error": ...}; "empty" (empty_body_sufficient, statements      *)
(* removed "all"); "nosites" (both lists empty); "greedy" (the counts).    *)
(* The count fields are 0 in the shapes that carry no counts.              *)

Report(kind, lemma_name, removed, kept) ==
    [kind |-> kind, lemma |-> lemma_name,
     empty_body_sufficient |-> (kind = "empty"),
     total_statements |-> (IF kind = "greedy" THEN Len(sites) ELSE 0),
     statements_removed |-> Len(removed),
     statements_kept |-> Len(kept),
     removed_details |-> removed,
     kept_details |-> kept]

Detail(site) == [line |-> site.line_idx, kind |-> site.kind, text |-> site.original]

-----------------------------------------------------------------------------
(* minimize_lemma, pieces.                                                 *)

\* empty_lines[bstart+1:bend] = [] under "if bend > bstart"
EmptyBody(lines_, bstart, bend) ==
    IF bend > bstart THEN DelSlice(lines_, bstart + 1, bend) ELSE lines_

RemoveSiteThroughNext(lines_, site) == DelSlice(lines_, site.line_idx, site.end_idx + 2)

RemoveSiteFirstLine(lines_, site) == DelSlice(lines_, site.line_idx, site.line_idx + 1)

\* del test_lines[site.line_idx:site.end_idx+1]
RemoveSite(lines_, site) == DelSlice(lines_, site.line_idx, site.end_idx + 1)

reversedRetrying(n) == [k \in 1..n |-> IF k = n THEN n ELSE n - k + 1]

\* for site in reversed(sites): the index tried at each iteration
reversed(n) == [k \in 1..n |-> n - k + 1]

\* removed_sites.append(...) on a pass
RecordRemoved(removed, site, pass) == IF pass THEN Append(removed, Detail(site)) ELSE removed

RecordKeptDropped(kept, site, pass) == kept

\* kept_sites.append(...) on a fail
RecordKept(kept, site, pass) == IF pass THEN kept ELSE Append(kept, Detail(site))

EmptyBodyResultUnemptied(empty_lines_, lines_for_lsp_) == lines_for_lsp_

\* the document returned when the empty-body candidate passes
EmptyBodyResult(empty_lines_, lines_for_lsp_) == empty_lines_

\* the index update after an accepted removal
ShiftSites(sites_, site) ==
    LET num_lines_removed == site.end_idx - site.line_idx + 1
    IN  [k \in 1..Len(sites_) |->
            IF sites_[k].line_idx > site.line_idx
            THEN [sites_[k] EXCEPT !.line_idx = @ - num_lines_removed,
                                   !.end_idx = @ - num_lines_removed]
            ELSE sites_[k]]

\* the lines at which _enumerate_sites asks the server for a definition
RECURSIVE DefinitionQueries(_, _, _, _)
DefinitionQueries(lines_, i, bend, types) ==
    IF i > bend THEN {}
    ELSE
      LET ln == At(lines_, i)
          calcBlock == IF "calc" \in types /\ CALC_RE(ln)
                       THEN _find_brace_balanced_block(lines_, i) ELSE None
          brace_line == IF "forall" \in types /\ FORALL_RE(ln)
                        THEN ForallBraceLine(lines_, i) ELSE None
          forallBlock == IF brace_line # None
                         THEN _find_brace_balanced_block(lines_, brace_line[1]) ELSE None
      IN  IF "assert" \in types /\ ASSERT_RE(ln)
          THEN DefinitionQueries(lines_, i + 1, bend, types)
          ELSE IF calcBlock # None
          THEN DefinitionQueries(lines_, calcBlock[1] + 1, bend, types)
          ELSE IF forallBlock # None
          THEN DefinitionQueries(lines_, forallBlock[1] + 1, bend, types)
          ELSE (IF "lemma-call" \in types /\ CALL_RE(ln) THEN {i} ELSE {})
               \cup DefinitionQueries(lines_, i + 1, bend, types)

ResolutionMissEmptied(lines_) == <<>>

\* return lines, {"error": ...}: the document returned with a resolution miss
ResolutionMiss(lines_) == lines_

\* the document minimize_file carries to the next unit
NextDocument(minimized_lines) == minimized_lines

\* minimize_lemma returns (doc, report) to minimize_file: the loop body's
\* tail, and after the last unit the final write
ReturnFromUnit(doc, report) ==
    /\ mf_current_lines' = NextDocument(doc)
    /\ all_reports' = Append(all_reports, report)
    /\ returned' = Append(returned, doc)
    /\ mpc' = "idle"
    /\ unit' = unit + 1
    /\ IF unit = Len(lemmas)
       THEN /\ fpc' = "done"
            /\ output' = [written |-> TRUE, lines |-> NextDocument(doc), nl |-> TRUE]
       ELSE /\ fpc' = fpc
            /\ output' = output

\* an exception leaves minimize_lemma and minimize_file
Raise ==
    /\ fpc' = "raised"
    /\ mpc' = "idle"
    /\ UNCHANGED <<unit, mf_current_lines, all_reports, output, returned>>

-----------------------------------------------------------------------------
(* Files.  A path is [kind, n]: the input, the output, or a temporary      *)
(* document of kind "unit" (minimize_file's copy of the current state),    *)
(* "modular" (the axiomatized copy) or "candidate" (what the verifier is   *)
(* run on), told apart by n as the random part of its name does.  The      *)
(* output path is a file other than the input.                             *)

InputPath == [kind |-> "input", n |-> 0]
OutputPath == [kind |-> "output", n |-> 0]

fs_vars == <<tmp_files, fs_writes>>

\* a name no file written so far has
FreshPath(kind, written) == [kind |-> kind, n |-> Cardinality(written) + 1]

\* the path a variable of the code holds: the file of that kind
PathOf(files, kind) == CHOOSE p \in files : p.kind = kind

unlink_skipped(files, p) == files

\* Path.unlink
unlink(files, p) == files \ {p}

\* the finally of minimize_lemma: if tmp_path and tmp_path.exists()
LemmaFinally(files) ==
    IF \E p \in files : p.kind = "modular"
    THEN unlink(files, PathOf(files, "modular"))
    ELSE files

\* the finally of minimize_file's loop body
UnitFinally(files) == unlink(files, PathOf(files, "unit"))

\* an exception or a return leaves minimize_lemma and the loop body
Leave(files) == UnitFinally(LemmaFinally(files))

\* the final write follows the last unit
WithFinalWrite(written) == IF unit = Len(lemmas) THEN written \cup {OutputPath} ELSE written

-----------------------------------------------------------------------------
(* Actions.                                                                *)

\* minimize_file up to its loop
MinimizeFileStart ==
    /\ fpc = "start"
    /\ LET names == IF lemmas_arg.given THEN lemmas_arg.names
                    ELSE list_lemmas(input_lines)
       IN  /\ lemmas' = names
           /\ IF names = <<>>
              THEN fpc' = "error" /\ mf_current_lines' = mf_current_lines
              ELSE fpc' = "loop" /\ mf_current_lines' = input_lines
    /\ UNCHANGED <<inputs, unit, all_reports, output, mpc, unit_vars,
                   last_outcome, trials, given, returned, fs_vars>>
    /\ UNCHANGED beyond_minimize

\* list_lemmas raises: the outline request timed out or returned an error
ListLemmasFails ==
    /\ fpc = "start"
    /\ ~lemmas_arg.given
    /\ fpc' = "raised"
    /\ UNCHANGED <<inputs, lemmas, unit, mf_current_lines, all_reports, output, mpc,
                   unit_vars, last_outcome, trials, given, returned, fs_vars>>
    /\ UNCHANGED beyond_minimize

\* one loop iteration of minimize_file enters minimize_lemma, which runs to
\* its first verifier call or returns a resolution miss
BeginUnit ==
    /\ fpc = "loop" /\ mpc = "idle" /\ unit <= Len(lemmas)
    /\ LET lemma_name == lemmas[unit]
           text_lines == splitlines_of_join(mf_current_lines, TRUE)
           span0 == _find_target_lemma_range(document_symbols(text_lines), lemma_name, text_lines)
           mod_lines == _axiomatize_other_lemmas(document_symbols(text_lines), text_lines,
                                                 <<span0[3], span0[4]>>)
           for_lsp == IF modular THEN mod_lines ELSE text_lines
           span == _find_target_lemma_range(document_symbols(for_lsp), lemma_name, for_lsp)
           unit_tmp == FreshPath("unit", fs_writes)
           w1 == fs_writes \cup {unit_tmp}
           tmp_path == FreshPath("modular", w1)
           w2 == IF modular /\ span0 # None THEN w1 \cup {tmp_path} ELSE w1
           tmp_test_path == FreshPath("candidate", w2)
       IN  /\ lines' = text_lines
           /\ given' = Append(given, text_lines)
           /\ trials' = <<>>
           /\ discovered' = <<>>
           /\ sites' = <<>>
           /\ step' = 0
           /\ removed_sites' = <<>>
           /\ kept_sites' = <<>>
           /\ ml_current_lines' = <<>>
           /\ last_outcome' = "none"
           /\ IF (modular /\ span0 = None) \/ span = None
              THEN /\ ReturnFromUnit(ResolutionMiss(text_lines),
                                     Report("error", lemma_name, <<>>, <<>>))
                   /\ lines_for_lsp' = text_lines
                   /\ body' = <<0, 0>>
                   /\ empty_lines' = <<>>
                   /\ fs_writes' = WithFinalWrite(w2)
                   /\ tmp_files' = Leave(tmp_files \cup (w2 \ fs_writes))
              ELSE /\ lines_for_lsp' = for_lsp
                   /\ body' = <<span[3], span[4]>>
                   /\ empty_lines' = EmptyBody(for_lsp, span[3], span[4])
                   /\ mpc' = "TryEmpty"
                   /\ fs_writes' = w2 \cup {tmp_test_path}
                   /\ tmp_files' = tmp_files \cup (w2 \ fs_writes) \cup {tmp_test_path}
                   /\ UNCHANGED <<fpc, unit, mf_current_lines, all_reports, output, returned>>
    /\ UNCHANGED <<inputs, lemmas>>
    /\ UNCHANGED beyond_minimize

\* an outline request of target resolution raises
ResolveFails ==
    /\ fpc = "loop" /\ mpc = "idle" /\ unit <= Len(lemmas)
    /\ lines' = splitlines_of_join(mf_current_lines, TRUE)
    /\ given' = Append(given, lines')
    /\ trials' = <<>>
    /\ last_outcome' = "none"
    /\ \E second \in IF modular THEN BOOLEAN ELSE {FALSE} :
         \* in a modular run the second resolution raises with the axiomatized
         \* copy written
         LET unit_tmp == FreshPath("unit", fs_writes)
             w1 == fs_writes \cup {unit_tmp}
             w2 == IF second THEN w1 \cup {FreshPath("modular", w1)} ELSE w1
         IN  /\ fs_writes' = w2
             /\ tmp_files' = Leave(tmp_files \cup (w2 \ fs_writes))
    /\ Raise
    /\ UNCHANGED <<inputs, lemmas, lines_for_lsp, body, empty_lines, sites, step,
                   ml_current_lines, removed_sites, kept_sites, discovered>>
    /\ UNCHANGED beyond_minimize

\* the verdict on the empty-body candidate, then site discovery
TryEmpty ==
    /\ mpc = "TryEmpty"
    /\ \E outcome \in OracleOutcomes :
         /\ last_outcome' = outcome
         /\ trials' = Append(trials, [site |-> 0, working |-> lines_for_lsp,
                                      candidate |-> empty_lines,
                                      pass |-> verify_dafny_file(outcome)])
         /\ IF verify_dafny_file(outcome)
            THEN /\ ReturnFromUnit(EmptyBodyResult(empty_lines, lines_for_lsp),
                                    Report("empty", lemmas[unit], <<>>, <<>>))
                 /\ UNCHANGED <<sites, discovered, step, ml_current_lines>>
                 /\ tmp_files' = Leave(unlink(tmp_files, PathOf(tmp_files, "candidate")))
                 /\ fs_writes' = WithFinalWrite(fs_writes)
            ELSE \E resolved \in SUBSET DefinitionQueries(lines_for_lsp, body[1], body[2],
                                                           extract_types) :
                   LET found == _enumerate_sites(lines_for_lsp, body[1], body[2],
                                                 extract_types, resolved)
                   IN  /\ sites' = found
                       /\ discovered' = found
                       /\ IF found = <<>>
                          THEN /\ ReturnFromUnit(lines_for_lsp,
                                                 Report("nosites", lemmas[unit], <<>>, <<>>))
                               /\ UNCHANGED <<step, ml_current_lines>>
                               /\ tmp_files' = Leave(unlink(tmp_files,
                                                            PathOf(tmp_files, "candidate")))
                               /\ fs_writes' = WithFinalWrite(fs_writes)
                          ELSE /\ mpc' = "GreedyReduce"
                               /\ ml_current_lines' = lines_for_lsp
                               /\ step' = 1
                               /\ tmp_files' = unlink(tmp_files, PathOf(tmp_files, "candidate"))
                               /\ fs_writes' = fs_writes
                               /\ UNCHANGED <<fpc, unit, mf_current_lines, all_reports,
                                              output, returned>>
    /\ UNCHANGED <<inputs, lemmas, lines, lines_for_lsp, body, empty_lines,
                   removed_sites, kept_sites, given>>
    /\ UNCHANGED beyond_minimize

\* the empty-body candidate fails and a definition request of site discovery raises
DiscoverFails ==
    /\ mpc = "TryEmpty"
    /\ DefinitionQueries(lines_for_lsp, body[1], body[2], extract_types) # {}
    /\ \E outcome \in OracleOutcomes \ {"exit0"} :
         /\ last_outcome' = outcome
         /\ trials' = Append(trials, [site |-> 0, working |-> lines_for_lsp,
                                      candidate |-> empty_lines, pass |-> FALSE])
    /\ tmp_files' = Leave(unlink(tmp_files, PathOf(tmp_files, "candidate")))
    /\ fs_writes' = fs_writes
    /\ Raise
    /\ UNCHANGED <<inputs, lemmas, unit_vars, given>>
    /\ UNCHANGED beyond_minimize

\* one iteration of the greedy loop; the last one builds the report and returns
GreedyReduce ==
    /\ mpc = "GreedyReduce"
    /\ \E outcome \in OracleOutcomes :
         LET idx == reversed(Len(sites))[step]
             site == sites[idx]
             test_lines == RemoveSite(ml_current_lines, site)
             pass == verify_dafny_file(outcome)
             new_current == IF pass THEN test_lines ELSE ml_current_lines
             new_removed == RecordRemoved(removed_sites, site, pass)
             new_kept == RecordKept(kept_sites, site, pass)
             tmp_test_path == FreshPath("candidate", fs_writes)
             after_trial == unlink(tmp_files \cup {tmp_test_path}, tmp_test_path)
         IN  /\ last_outcome' = outcome
             /\ trials' = Append(trials, [site |-> idx, working |-> ml_current_lines,
                                          candidate |-> test_lines, pass |-> pass,
                                          sites |-> sites])
             /\ ml_current_lines' = new_current
             /\ removed_sites' = new_removed
             /\ kept_sites' = new_kept
             /\ sites' = IF pass THEN ShiftSites(sites, site) ELSE sites
             /\ IF step = Len(sites)
                THEN /\ ReturnFromUnit(new_current,
                                       Report("greedy", lemmas[unit], new_removed, new_kept))
                     /\ step' = step
                     /\ tmp_files' = Leave(after_trial)
                     /\ fs_writes' = WithFinalWrite(fs_writes \cup {tmp_test_path})
                ELSE /\ step' = step + 1
                     /\ tmp_files' = after_trial
                     /\ fs_writes' = fs_writes \cup {tmp_test_path}
                     /\ UNCHANGED <<fpc, unit, mf_current_lines, all_reports, output,
                                    returned, mpc>>
    /\ UNCHANGED <<inputs, lemmas, lines, lines_for_lsp, body, empty_lines,
                   discovered, given>>
    /\ UNCHANGED beyond_minimize

Next ==
    \/ MinimizeFileStart
    \/ ListLemmasFails
    \/ BeginUnit
    \/ ResolveFails
    \/ TryEmpty
    \/ DiscoverFails
    \/ GreedyReduce

Spec == Init /\ [][Next]_vars

-----------------------------------------------------------------------------
(* Vocabulary of the properties.                                           *)

\* minimize_lemma has returned for the latest unit; trials and discovered
\* are that unit's
Finished == fpc \in {"loop", "done"} /\ mpc = "idle" /\ returned # <<>>
LastReport == all_reports[Len(all_reports)]
LastReturned == returned[Len(returned)]
LastGiven == given[Len(given)]
GreedyFinished == Finished /\ LastReport.kind = "greedy"

\* the lines of doc whose 0-based index is outside a..b
WithoutSpan(doc, a, b) ==
    LET F[k \in 0..Len(doc)] ==
            IF k = 0 THEN <<>>
            ELSE IF (k - 1) \in a..b THEN F[k - 1] ELSE Append(F[k - 1], doc[k])
    IN  F[Len(doc)]

\* the working document after trial t
After(t) == IF t.pass THEN t.candidate ELSE t.working

SpanLength(site) == site.end_idx - site.line_idx + 1

\* site (as discovered) is listed in details
Listed(details, site) ==
    \E k \in 1..Len(details) :
        details[k].line = site.line_idx /\ details[k].text = site.original

-----------------------------------------------------------------------------
\* C1: in the greedy phase the sites are tried in descending start-line order,
\* each against the current working document: the candidate is the working
\* document without the lines of that site, the site is removed exactly when
\* the oracle accepts the candidate and kept otherwise, and the returned
\* document is the working document after the last trial.
C1_GreedyTrials ==
    GreedyFinished =>
        LET n == Len(discovered)
        IN  /\ Len(trials) = n + 1
            /\ \A k \in 1..n :
                 LET t == trials[k + 1]
                     s == discovered[t.site]
                 IN  /\ t.site \in 1..n
                     /\ k > 1 => discovered[trials[k].site].line_idx > s.line_idx
                     /\ t.working = (IF k = 1 THEN lines_for_lsp ELSE After(trials[k]))
                     /\ Slice(t.working, s.line_idx, s.end_idx + 1) = s.original
                     /\ t.candidate = WithoutSpan(t.working, s.line_idx, s.end_idx)
                     /\ t.pass <=> Listed(LastReport.removed_details, s)
                     /\ ~t.pass <=> Listed(LastReport.kept_details, s)
            /\ LastReturned = After(trials[n + 1])

\* a greedy run that removed a multi-line site below a kept one and then a
\* site above both
C1_Witness ==
    /\ GreedyFinished
    /\ Len(discovered) >= 3
    /\ \E i, j, k \in 2..Len(trials) :
         /\ i < j /\ j < k
         /\ trials[i].pass /\ SpanLength(discovered[trials[i].site]) > 1
         /\ ~trials[j].pass
         /\ trials[k].pass

-----------------------------------------------------------------------------
\* C2: when minimize_lemma finishes through the greedy phase, the report has
\* statements_removed + statements_kept = total_statements, and every
\* discovered site is in exactly one of the removed and the kept list.
C2_RemovedPlusKept ==
    GreedyFinished =>
        /\ LastReport.total_statements = Len(discovered)
        /\ LastReport.statements_removed + LastReport.statements_kept
             = LastReport.total_statements
        /\ LastReport.statements_removed = Len(LastReport.removed_details)
        /\ LastReport.statements_kept = Len(LastReport.kept_details)
        /\ \A k \in 1..Len(discovered) :
             Listed(LastReport.removed_details, discovered[k])
               # Listed(LastReport.kept_details, discovered[k])

C2_Witness ==
    /\ GreedyFinished
    /\ LastReport.statements_removed >= 2
    /\ LastReport.statements_kept >= 2

-----------------------------------------------------------------------------
RECURSIVE RemovedSpanSum(_)
\* the summed line spans of the sites whose trial among ts passed
RemovedSpanSum(ts) ==
    IF ts = <<>> THEN 0
    ELSE (IF Head(ts).site > 0 /\ Head(ts).pass
          THEN SpanLength(discovered[Head(ts).site]) ELSE 0) + RemovedSpanSum(Tail(ts))

\* C3: when minimize_lemma finishes through the greedy phase, in a modular or
\* a non-modular run, the returned document has as many lines as the document
\* the engine was given minus the summed line spans of the removed sites.
C3_LineCount ==
    GreedyFinished => Len(LastReturned) = Len(LastGiven) - RemovedSpanSum(trials)

\* the same count taken from the document the greedy phase starts with
C3_LineCountFromWorking ==
    GreedyFinished => Len(LastReturned) = Len(lines_for_lsp) - RemovedSpanSum(trials)

-----------------------------------------------------------------------------
\* the token after the "{" that opens the body of lemma name is its "}"
EmptyBlock(doc, name) ==
    LET ts == Flatten(doc)
        heads == {k \in 1..Len(ts) : ts[k] = Lemma(name)}
        opens == {k \in 1..Len(ts) : heads # {} /\ k > Min(heads) /\ ts[k] = Open}
    IN  /\ heads # {}
        /\ opens # {}
        /\ Min(opens) < Len(ts)
        /\ ts[Min(opens) + 1] = Close

\* C4: whenever minimize_lemma reports empty_body_sufficient, the returned
\* document has the target's body collapsed to an empty block: no statement
\* remains between the body's opening and closing brace, whatever the layout.
C4_EmptyBodyCollapsed ==
    (Finished /\ LastReport.empty_body_sufficient)
        => EmptyBlock(LastReturned, LastReport.lemma)

-----------------------------------------------------------------------------
\* C5: when minimize_lemma reports empty_body_sufficient, the document it
\* returns is the candidate the oracle accepted (the only oracle call of the
\* unit), and so is the file written when the unit is the last one.
C5_EmptyResultIsAccepted ==
    (Finished /\ LastReport.empty_body_sufficient) =>
        /\ Len(trials) = 1
        /\ trials[1].pass
        /\ LastReturned = trials[1].candidate
        /\ fpc = "done" => splitlines_of_join(output.lines, output.nl) = trials[1].candidate

C5_Witness ==
    /\ Finished
    /\ LastReport.empty_body_sufficient
    /\ Len(LastReturned) < Len(lines_for_lsp)
    /\ fpc = "done"

-----------------------------------------------------------------------------
\* the oracle of Scenario A: pass exactly for a candidate that still holds
\* the assertion about y
RetainsY(doc) == \E i \in 1..Len(doc) : \E k \in 1..Len(doc[i]) : doc[i][k] = AssertStmt("y")

\* C6 (Scenario A): for a target whose body holds the two sites "assert x > 0;"
\* and "assert y > 0;", in the layout of the specification or one statement
\* per line, and an oracle accepting exactly the candidates that retain the y
\* assertion, the engine removes x, keeps y and reports 1 removed, 1 kept.
C6_ScenarioA ==
    ( /\ Finished
      /\ LastGiven \in {DocScenarioA, DocScenarioAInline}
      /\ LastReport.lemma = "L"
      /\ \A k \in 1..Len(trials) : trials[k].pass <=> RetainsY(trials[k].candidate) )
    =>
    ( /\ LastReport.kind = "greedy"
      /\ ~LastReport.empty_body_sufficient
      /\ LastReport.statements_removed = 1
      /\ LastReport.statements_kept = 1
      /\ LastReport.removed_details[1].text = << <<AssertStmt("x")>> >>
      /\ LastReport.kept_details[1].text = << <<AssertStmt("y")>> >>
      /\ RetainsY(LastReturned)
      /\ ~\E i \in 1..Len(LastReturned) : \E k \in 1..Len(LastReturned[i]) :
             LastReturned[i][k] = AssertStmt("x") )

\* the same for the one-statement-per-line layout alone
C6_ScenarioAPerLine ==
    (Finished /\ LastGiven = DocScenarioA) => C6_ScenarioA

-----------------------------------------------------------------------------
\* C7: if every oracle call of a unit fails (nonzero exit, timeout, crash),
\* minimize_lemma keeps every discovered site and returns the working
\* document unchanged; a verdict is pass only for exit code zero; an exception
\* is never due to the verifier (it leaves minimize_lemma only where discovery
\* had a definition request to make).
C7_OracleFailures ==
    /\ trials # <<>> => (trials[Len(trials)].pass <=> last_outcome = "exit0")
    /\ (fpc = "raised" /\ trials # <<>>) =>
           DefinitionQueries(lines_for_lsp, body[1], body[2], extract_types) # {}
    /\ (Finished /\ trials # <<>> /\ \A k \in 1..Len(trials) : ~trials[k].pass) =>
           /\ LastReport.kind \in {"greedy", "nosites"}
           /\ LastReport.statements_removed = 0
           /\ LastReport.statements_kept = Len(discovered)
           /\ LastReturned = lines_for_lsp

C7_Witness ==
    /\ Finished
    /\ LastReport.kind = "greedy"
    /\ Len(trials) >= 4
    /\ \A k \in 1..Len(trials) : ~trials[k].pass
    /\ last_outcome = "timeout"

-----------------------------------------------------------------------------
\* C8: per unit the oracle is called at most 1 + number of sites times: first
\* for the empty-body candidate, then at most once per discovered site (a kept
\* site is not tried again), and not at all after the empty-body candidate
\* passed.
C8_OracleCalls ==
    /\ Len(trials) <= 1 + Len(discovered)
    /\ \A i, j \in 1..Len(trials) : i < j => trials[i].site # trials[j].site
    /\ trials # <<>> => trials[1].site = 0
    /\ (trials # <<>> /\ trials[1].pass) => (Len(trials) = 1 /\ mpc = "idle")

\* a unit with a kept site followed by an accepted removal, every site tried
C8_Witness ==
    /\ GreedyFinished
    /\ Len(trials) = 1 + Len(discovered)
    /\ \E i, j \in 2..Len(trials) : i < j /\ ~trials[i].pass /\ trials[j].pass

-----------------------------------------------------------------------------
\* C9: minimize_file processes the requested units one at a time in list order
\* (default: the order of list_lemmas); the document given to unit N+1 is
\* exactly the document returned for unit N, and the file written at the end
\* is the document returned for the last unit.
C9_Threading ==
    /\ fpc \in {"loop", "done"} =>
          lemmas = (IF lemmas_arg.given THEN lemmas_arg.names ELSE list_lemmas(input_lines))
    /\ Len(returned) <= Len(given) /\ Len(given) <= Len(returned) + 1
    /\ \A k \in 1..Len(all_reports) : all_reports[k].lemma = lemmas[k]
    /\ \A k \in 1..Len(returned) : k + 1 <= Len(given) => given[k + 1] = returned[k]
    /\ fpc = "done" =>
          /\ Len(returned) = Len(lemmas)
          /\ output.written
          /\ splitlines_of_join(output.lines, output.nl) = returned[Len(lemmas)]

\* the same for returned documents that have at least one line
C9_ThreadingNonEmpty ==
    (\A k \in 1..Len(returned) : returned[k] # <<>>) => C9_Threading

-----------------------------------------------------------------------------
(* The protocol client (lsp.py): one session, its server process, the      *)
(* listener thread and the calls of the caller threads.                    *)
(*                                                                         *)
(* A frame is [clen, json, id, method, payload, params]: clen tells        *)
(* whether the header block gives a Content-Length ("ok"), gives 0         *)
(* ("zero") or has no such field ("missing"); json whether the body        *)
(* decodes to an object ("dict"), to another JSON value ("other") or not   *)
(* at all ("invalid"); id is the "id" member (0: none); method whether it  *)
(* has a "method"; payload is "result", "error" or "none"; params tells    *)
(* the notifications of the server apart (0: none).                        *)

\* client calls started on the session (request, notify, shutdown,
\* pop_notifications)
MaxRequests == 2
MaxFrames == 2
MaxErrChunks == 1

\* an id no request of the session carries
ForeignId == MaxRequests + 1

Frame(id, method, payload, params) ==
    [clen |-> "ok", json |-> "dict", id |-> id, method |-> method, payload |-> payload,
     params |-> params]

\* what else a server can write: a request of its own, a response to no
\* request of the session, an object with neither id nor method, a JSON value
\* that is no object, bytes that are no JSON, a frame announcing no bytes
OddFrames ==
    { Frame(ForeignId, TRUE, "none", 0),
      Frame(ForeignId, FALSE, "result", 0),
      Frame(0, FALSE, "none", 0),
      [Frame(0, FALSE, "none", 0) EXCEPT !.json = "other"],
      [Frame(0, FALSE, "none", 0) EXCEPT !.json = "invalid"],
      [Frame(0, FALSE, "none", 0) EXCEPT !.clen = "zero"],
      [Frame(0, FALSE, "none", 0) EXCEPT !.clen = "missing"] }

\* how a call of a caller thread can have ended
Ended == {"returned", "runtime_error", "timeout", "broken_pipe", "attribute_error"}

server_side == <<srv_alive, srv_out_open, srv_err_open, err_buf>>
listener_side == <<reader, decoded>>
caller_side == <<next_id, cpc, req_id, reply, tail, taken, shut, nres>>
drain_side == <<dpc, out, drains>>

LspInit ==
    /\ input_lines = DocScenarioA
    /\ input_nl = TRUE
    /\ lemmas_arg = [given |-> TRUE, names |-> <<"L">>]
    /\ modular = FALSE
    /\ extract_types = DefaultTypes
    /\ MinimizeInit
    /\ SessionInit
    /\ QueryInit
    /\ CliMinimize
    /\ FocusIdle

\* the server answers a request it has read, with a result or an error
ServerRespond ==
    /\ srv_alive /\ srv_out_open /\ sent < MaxFrames
    /\ \E id \in inbox : \E payload \in {"result", "error"} :
         /\ wire' = Append(wire, Frame(id, FALSE, payload, 0))
         /\ inbox' = inbox \ {id}
    /\ sent' = sent + 1
    /\ UNCHANGED <<server_side, listener_side, _rx, _notif, caller_side, calls, drain_side>>
    /\ UNCHANGED beyond_lsp

\* the server sends a notification
ServerNotify ==
    /\ srv_alive /\ srv_out_open /\ sent < MaxFrames
    /\ wire' = Append(wire, Frame(0, TRUE, "none", sent + 1))
    /\ sent' = sent + 1
    /\ UNCHANGED <<server_side, inbox, listener_side, _rx, _notif, caller_side, calls,
                   drain_side>>
    /\ UNCHANGED beyond_lsp

\* the server writes something that is neither
ServerSendsOther ==
    /\ srv_alive /\ srv_out_open /\ sent < MaxFrames
    /\ \E f \in OddFrames : wire' = Append(wire, f)
    /\ sent' = sent + 1
    /\ UNCHANGED <<server_side, inbox, listener_side, _rx, _notif, caller_side, calls,
                   drain_side>>
    /\ UNCHANGED beyond_lsp

\* the server writes diagnostics to stderr
ServerStderr ==
    /\ srv_alive /\ srv_err_open /\ err_buf < MaxErrChunks
    /\ err_buf' = err_buf + 1
    /\ UNCHANGED <<srv_alive, srv_out_open, srv_err_open, inbox, wire, sent, listener_side,
                   _rx, _notif, caller_side, calls, drain_side>>
    /\ UNCHANGED beyond_lsp

\* the server closes its stderr and keeps running
ServerClosesStderr ==
    /\ srv_alive /\ srv_err_open
    /\ srv_err_open' = FALSE
    /\ UNCHANGED <<srv_alive, srv_out_open, err_buf, inbox, wire, sent, listener_side, _rx,
                   _notif, caller_side, calls, drain_side>>
    /\ UNCHANGED beyond_lsp

\* the server process ends; its ends of the pipes close
ServerExit ==
    /\ srv_alive
    /\ srv_alive' = FALSE
    /\ srv_out_open' = FALSE
    /\ srv_err_open' = FALSE
    /\ UNCHANGED <<err_buf, inbox, wire, sent, listener_side, _rx, _notif, caller_side, calls,
                   drain_side>>
    /\ UNCHANGED beyond_lsp

IsNotificationAnyMethod(msg) == msg.json = "dict" /\ msg.method

\* isinstance(msg, dict) and msg.get("method") and "id" not in msg
IsNotification(msg) == msg.json = "dict" /\ msg.method /\ msg.id = 0

\* _read_loop reads one frame and routes it
ListenerRead ==
    /\ reader = "running"
    /\ wire # <<>>
    /\ LET f == Head(wire)
       IN  /\ wire' = Tail(wire)
           /\ IF f.clen # "ok"
              THEN \* clen stays 0, read(0) gives b"" and the loop returns
                   reader' = "stopped" /\ UNCHANGED <<_rx, _notif, decoded>>
              ELSE IF f.json = "invalid"
              THEN UNCHANGED <<reader, _rx, _notif, decoded>>
              ELSE /\ decoded' = Append(decoded, f)
                   /\ reader' = reader
                   /\ IF IsNotification(f)
                      THEN _notif' = Append(_notif, f) /\ _rx' = _rx
                      ELSE _rx' = Append(_rx, f) /\ _notif' = _notif
    /\ UNCHANGED <<server_side, inbox, sent, caller_side, calls, drain_side>>
    /\ UNCHANGED beyond_lsp

\* readline() returns b"" at the end of the stream and _read_loop returns
ListenerEof ==
    /\ reader = "running"
    /\ wire = <<>>
    /\ ~srv_out_open
    /\ reader' = "stopped"
    /\ UNCHANGED <<server_side, inbox, wire, sent, decoded, _rx, _notif, caller_side, calls,
                   drain_side>>
    /\ UNCHANGED beyond_lsp

\* request, up to the loop: a fresh id, _send, and the deadline is set
RequestBegin(c) ==
    /\ req_id' = [req_id EXCEPT ![c] = next_id]
    /\ next_id' = next_id + 1
    /\ calls' = calls + 1
    /\ IF srv_alive
       THEN inbox' = inbox \cup {next_id} /\ cpc' = [cpc EXCEPT ![c] = "waiting"]
       ELSE \* the write to the closed pipe raises
            inbox' = inbox /\ cpc' = [cpc EXCEPT ![c] = "broken_pipe"]

\* a caller calls request
RequestSend(c) ==
    /\ cpc[c] = "idle"
    /\ shut[c] = "no"
    /\ calls < MaxRequests
    /\ RequestBegin(c)
    /\ UNCHANGED <<server_side, wire, sent, listener_side, _rx, _notif, reply, tail, taken,
                   shut, nres, drain_side>>
    /\ UNCHANGED beyond_lsp

IdMatchesAny(msg, rid) == TRUE

\* msg.get("id") == req_id
IdMatches(msg, rid) == msg.id = rid

HasResultOrError(msg) == msg.payload \in {"result", "error"}

\* "result" in msg
HasResult(msg) == msg.payload = "result"

\* request: self._rx.get(...) hands over a message
RequestPoll(c) ==
    /\ cpc[c] = "waiting"
    /\ _rx # <<>>
    /\ LET msg == Head(_rx)
       IN  /\ _rx' = Tail(_rx)
           /\ IF msg.json # "dict"
              THEN \* msg.get raises AttributeError
                   /\ cpc' = [cpc EXCEPT ![c] = "attribute_error"]
                   /\ reply' = reply
              ELSE IF IdMatches(msg, req_id[c])
              THEN IF HasResult(msg)
                   THEN /\ cpc' = [cpc EXCEPT ![c] = "returned"]
                        /\ reply' = [reply EXCEPT ![c] = [kind |-> "result", id |-> msg.id]]
                   ELSE /\ cpc' = [cpc EXCEPT ![c] = "runtime_error"]
                        /\ reply' = [reply EXCEPT ![c] = [kind |-> msg.payload, id |-> msg.id]]
              ELSE UNCHANGED <<cpc, reply>>
           /\ taken' = Append(taken, [by |-> c, rid |-> req_id[c], msg |-> msg,
                                      gave |-> cpc'[c]])
    /\ UNCHANGED <<server_side, inbox, wire, sent, listener_side, _notif, next_id, req_id, tail,
                   shut, nres, calls, drain_side>>
    /\ UNCHANGED beyond_lsp

\* request: the loop finds rem <= 0
RequestExpire(c) ==
    /\ cpc[c] = "waiting"
    /\ cpc' = [cpc EXCEPT ![c] = "expired"]
    /\ UNCHANGED <<server_side, inbox, wire, sent, listener_side, _rx, _notif, next_id, req_id,
                   reply, tail, taken, shut, nres, calls, drain_side>>
    /\ UNCHANGED beyond_lsp

\* request: self._err.read() returns, which it does at the end of the stderr
\* stream, and TimeoutError is raised with the text read
RequestTimeout(c) ==
    /\ cpc[c] = "expired"
    /\ ~srv_err_open
    /\ tail' = [tail EXCEPT ![c] = err_buf]
    /\ cpc' = [cpc EXCEPT ![c] = "timeout"]
    /\ UNCHANGED <<server_side, inbox, wire, sent, listener_side, _rx, _notif, next_id, req_id,
                   reply, taken, shut, nres, calls, drain_side>>
    /\ UNCHANGED beyond_lsp

\* the result or the exception of a request call reaches the caller
CallEnds(c) ==
    /\ cpc[c] \in Ended
    /\ shut[c] = "no"
    /\ cpc' = [cpc EXCEPT ![c] = "idle"]
    /\ UNCHANGED <<server_side, inbox, wire, sent, listener_side, _rx, _notif, next_id, req_id,
                   reply, tail, taken, shut, nres, calls, drain_side>>
    /\ UNCHANGED beyond_lsp

\* notify: _send, whose write raises when the server has exited
Notify(c) ==
    /\ cpc[c] = "idle"
    /\ shut[c] = "no"
    /\ calls < MaxRequests
    /\ calls' = calls + 1
    /\ nres' = [nres EXCEPT ![c] = IF srv_alive THEN "sent" ELSE "broken_pipe"]
    /\ UNCHANGED <<server_side, inbox, wire, sent, listener_side, _rx, _notif, next_id, cpc,
                   req_id, reply, tail, taken, shut, drain_side>>
    /\ UNCHANGED beyond_lsp

\* shutdown: try: self.request("shutdown", None, timeout=2.0)
ShutdownStart(c) ==
    /\ cpc[c] = "idle"
    /\ shut[c] = "no"
    /\ calls < MaxRequests
    /\ shut' = [shut EXCEPT ![c] = "request"]
    /\ RequestBegin(c)
    /\ UNCHANGED <<server_side, wire, sent, listener_side, _rx, _notif, reply, tail, taken,
                   nres, drain_side>>
    /\ UNCHANGED beyond_lsp

\* a bare "except: pass" swallows whatever was raised
Swallowed(exc) == TRUE

\* shutdown: except: pass; try: self.notify("exit", None); except: pass
ShutdownExit(c) ==
    /\ shut[c] = "request"
    /\ cpc[c] \in Ended
    /\ shut' = [shut EXCEPT ![c] =
                  IF /\ cpc[c] # "returned" => Swallowed(cpc[c])
                     /\ ~srv_alive => Swallowed("broken_pipe")
                  THEN "returned" ELSE "raised"]
    /\ cpc' = [cpc EXCEPT ![c] = "idle"]
    /\ UNCHANGED <<server_side, inbox, wire, sent, listener_side, _rx, _notif, next_id, req_id,
                   reply, tail, taken, nres, calls, drain_side>>
    /\ UNCHANGED beyond_lsp

\* pop_notifications: out=[]
DrainStart ==
    /\ dpc = "idle"
    /\ calls < MaxRequests
    /\ calls' = calls + 1
    /\ dpc' = "draining"
    /\ out' = <<>>
    /\ UNCHANGED <<server_side, inbox, wire, sent, listener_side, _rx, _notif, caller_side,
                   drains>>
    /\ UNCHANGED beyond_lsp

get_nowait_newest(q) == [item |-> q[Len(q)], rest |-> SubSeq(q, 1, Len(q) - 1)]

\* queue.Queue.get_nowait on a queue that holds an item
get_nowait(q) == [item |-> Head(q), rest |-> Tail(q)]

\* pop_notifications: out.append(self._notif.get_nowait())
DrainTake ==
    /\ dpc = "draining"
    /\ _notif # <<>>
    /\ out' = Append(out, get_nowait(_notif).item)
    /\ _notif' = get_nowait(_notif).rest
    /\ UNCHANGED <<server_side, inbox, wire, sent, listener_side, _rx, caller_side, calls, dpc,
                   drains>>
    /\ UNCHANGED beyond_lsp

\* pop_notifications: get_nowait raises queue.Empty; return out
DrainReturn ==
    /\ dpc = "draining"
    /\ _notif = <<>>
    /\ drains' = Append(drains, out)
    /\ out' = <<>>
    /\ dpc' = "idle"
    /\ UNCHANGED <<server_side, inbox, wire, sent, listener_side, _rx, _notif, caller_side,
                   calls>>
    /\ UNCHANGED beyond_lsp

\* request traffic on the session
LspNext ==
    \/ ServerRespond
    \/ ServerNotify
    \/ ServerStderr
    \/ ServerExit
    \/ ListenerRead
    \/ ListenerEof
    \/ \E c \in Callers : RequestSend(c)
    \/ \E c \in Callers : RequestPoll(c)
    \/ \E c \in Callers : RequestExpire(c)
    \/ \E c \in Callers : RequestTimeout(c)
    \/ \E c \in Callers : CallEnds(c)

LspSpec == LspInit /\ [][LspNext]_vars

\* the caller and listener threads keep running, and time passes; nothing
\* makes the server answer or exit
LspFairness ==
    /\ WF_vars(ListenerRead)
    /\ WF_vars(ListenerEof)
    /\ \A c \in Callers :
         /\ WF_vars(RequestPoll(c))
         /\ WF_vars(RequestExpire(c))
         /\ WF_vars(RequestTimeout(c))

FairLspSpec == LspInit /\ [][LspNext]_vars /\ LspFairness

\* everything a server can write, the two queues and those who empty them
QueueNext ==
    \/ ServerRespond
    \/ ServerNotify
    \/ ServerSendsOther
    \/ ServerExit
    \/ ListenerRead
    \/ ListenerEof
    \/ \E c \in Callers : RequestSend(c)
    \/ \E c \in Callers : RequestPoll(c)
    \/ \E c \in Callers : CallEnds(c)
    \/ DrainStart
    \/ DrainTake
    \/ DrainReturn

QueueSpec == LspInit /\ [][QueueNext]_vars

\* the end of a session: notify and shutdown, after at most one request
ShutdownNext ==
    \/ ServerRespond
    \/ ServerStderr
    \/ ServerClosesStderr
    \/ ServerExit
    \/ ListenerRead
    \/ ListenerEof
    \/ \E c \in Callers : RequestSend(c)
    \/ \E c \in Callers : RequestPoll(c)
    \/ \E c \in Callers : RequestExpire(c)
    \/ \E c \in Callers : RequestTimeout(c)
    \/ \E c \in Callers : CallEnds(c)
    \/ \E c \in Callers : Notify(c)
    \/ \E c \in Callers : ShutdownStart(c)
    \/ \E c \in Callers : ShutdownExit(c)

ShutdownSpec == LspInit /\ [][ShutdownNext]_vars

ShutdownFairness ==
    /\ WF_vars(ListenerRead)
    /\ WF_vars(ListenerEof)
    /\ \A c \in Callers :
         /\ WF_vars(RequestPoll(c))
         /\ WF_vars(RequestExpire(c))
         /\ WF_vars(RequestTimeout(c))
         /\ WF_vars(ShutdownExit(c))

FairShutdownSpec == LspInit /\ [][ShutdownNext]_vars /\ ShutdownFairness

-----------------------------------------------------------------------------
\* C10 (Scenario D): a request call for which no response with its id arrives
\* before the deadline ends by raising the timeout error, with the stderr
\* text captured, whether or not the server still runs and holds stderr open.
C10_TimeoutRaises ==
    \A c \in Callers : (cpc[c] = "expired") ~> (cpc[c] = "timeout" /\ tail[c] = err_buf)

\* the same as a step: a call whose deadline has passed can raise
C10_ExpiredCanRaise ==
    \A c \in Callers : cpc[c] = "expired" => ENABLED RequestTimeout(c)

\* once the server has closed stderr the expired call does raise
C10_TimeoutRaisesOnceClosed ==
    \A c \in Callers : (cpc[c] = "expired" /\ ~srv_err_open) ~> (cpc[c] = "timeout" /\ tail[c] = err_buf)

-----------------------------------------------------------------------------
\* C11: request returns a result only from a message whose id is the id it
\* sent: a message with any other id, such as the late response to a call that
\* has timed out, and a notification are never returned as the result.
C11_ResultFromOwnId ==
    /\ \A k \in 1..Len(taken) :
         taken[k].gave = "returned" =>
             /\ taken[k].msg.id = taken[k].rid
             /\ taken[k].rid # 0
             /\ ~(taken[k].msg.method /\ taken[k].msg.id = 0)
    /\ \A c \in Callers : cpc[c] = "returned" => reply[c].id = req_id[c]

\* a call took the late response to a call whose deadline had passed, went on
\* waiting and then returned its own response
C11_Witness ==
    \E k, j \in 1..Len(taken) : \E late \in Callers :
        /\ k < j
        /\ taken[k].by = taken[j].by
        /\ taken[k].rid = taken[j].rid
        /\ late # taken[k].by
        /\ cpc[late] = "expired"
        /\ taken[k].msg.id = req_id[late]
        /\ taken[k].msg.payload = "result"
        /\ taken[k].gave = "waiting"
        /\ taken[j].gave = "returned"

-----------------------------------------------------------------------------
\* C12: with two request calls outstanding on one session and both answered,
\* each call gets the response carrying its own id: the response to a call
\* that is still waiting has not been taken from the queue by the other call.
C12_OwnResponse ==
    \A c \in Callers :
        cpc[c] = "waiting" =>
            ~\E k \in 1..Len(taken) : taken[k].msg.id = req_id[c] /\ taken[k].by # c

-----------------------------------------------------------------------------
\* C13: when the message with the request's id carries an error instead of a
\* result, request raises the protocol error wrapping that error and returns
\* no result.
C13_ErrorPayloadRaises ==
    /\ \A k \in 1..Len(taken) :
         (/\ taken[k].msg.json = "dict"
          /\ taken[k].msg.id = taken[k].rid
          /\ taken[k].msg.payload = "error") => taken[k].gave = "runtime_error"
    /\ \A c \in Callers :
         cpc[c] = "runtime_error" => reply[c] = [kind |-> "error", id |-> req_id[c]]

\* a call has ended with the protocol error
C13_Witness ==
    \E c \in Callers :
        /\ cpc[c] = "runtime_error"
        /\ \E k \in 1..Len(taken) :
             taken[k].by = c /\ taken[k].rid = req_id[c] /\ taken[k].msg.payload = "error"

-----------------------------------------------------------------------------
(* Where the messages of the session are.                                  *)

\* the messages that have entered the notification queue, oldest first
NotifSide == Flatten(drains) \o out \o _notif
\* the messages that have entered the response queue, oldest first
RxSide == [k \in 1..Len(taken) |-> taken[k].msg] \o _rx
HasMethodNoId(f) == f.json = "dict" /\ f.method /\ f.id = 0
Count(seq, f) == Cardinality({k \in 1..Len(seq) : seq[k] = f})

\* C14: the listener puts every decoded message in exactly one of the two
\* queues, the notification queue exactly when the message has a method and
\* no id and the response queue otherwise; no notification is handed to a
\* request and no message with an id enters the notification queue.
C14_Routing ==
    /\ Len(decoded) = Len(NotifSide) + Len(RxSide)
    /\ \A k \in 1..Len(decoded) :
         LET f == decoded[k]
         IN  /\ Count(decoded, f) = Count(NotifSide, f) + Count(RxSide, f)
             /\ HasMethodNoId(f) => Count(RxSide, f) = 0
             /\ ~HasMethodNoId(f) => Count(NotifSide, f) = 0
    /\ \A k \in 1..Len(taken) : ~HasMethodNoId(taken[k].msg)
    /\ \A k \in 1..Len(NotifSide) : NotifSide[k].id = 0

\* a notification and a request of the server (method and id) were decoded,
\* and a request call has taken the latter
C14_Witness ==
    /\ \E k \in 1..Len(decoded) : HasMethodNoId(decoded[k])
    /\ \E k \in 1..Len(taken) : taken[k].msg.method /\ taken[k].msg.id # 0

-----------------------------------------------------------------------------
\* C15: pop_notifications returns the queued notifications in arrival order
\* and takes them out of the queue: over all drains, interleaved with the
\* listener enqueuing, every notification is returned by exactly one drain.
C15_DrainOrder ==
    NotifSide = SelectSeq(decoded, HasMethodNoId)

\* a drain returned two notifications at once
C15_Witness ==
    \E k \in 1..Len(drains) : Len(drains[k]) >= 2

\* two drains returned a notification each
C15_TwoDrains ==
    \E k, j \in 1..Len(drains) : k < j /\ drains[k] # <<>> /\ drains[j] # <<>>

-----------------------------------------------------------------------------
\* C16: shutdown never raises: whether its request succeeds, is answered with
\* an error, times out, or the server's input is already closed, the call
\* returns normally to its caller.
C16_ShutdownReturns ==
    \A c \in Callers : (shut[c] = "request") ~> (shut[c] = "returned")

\* no exception leaves shutdown
C16_NeverRaises ==
    \A c \in Callers : shut[c] # "raised"

\* shutdown returns once its request has ended
C16_ReturnsOnceRequestEnded ==
    \A c \in Callers : (shut[c] = "request" /\ cpc[c] \in Ended) ~> (shut[c] = "returned")

-----------------------------------------------------------------------------
\* C17: after shutdown has returned, the server process of the session has
\* been terminated, also when the server ignores the shutdown request and the
\* exit notification.
C17_Terminated ==
    \A c \in Callers : shut[c] = "returned" => ~srv_alive

-----------------------------------------------------------------------------
\* C18: notify sends one message, waits for nothing and surfaces no error to
\* its caller, also when the server process has exited.
C18_NotifySilent ==
    \A c \in Callers : nres[c] # "broken_pipe"

\* while the server runs, notify returns normally
C18_NotifyToLiveServer ==
    [][\A c \in Callers : (nres'[c] # nres[c] /\ srv_alive) => nres'[c] = "sent"]_vars

-----------------------------------------------------------------------------
(* document_symbols (lsp_outline.py) and goto_definition (lsp_def.py): one *)
(* call after another, each client call of theirs ending in one of the     *)
(* ways the session allows.                                                *)

MaxQueries == 3

QueryFunctions == {"document_symbols", "goto_definition"}

\* how notify can end
NotifyEnds == {"sent", "broken_pipe"}

AfterTryUnguarded(exc) == "idle"

\* where control goes from the try block: the finally clause runs on every
\* way out
AfterTry(exc) == "finally"

\* control leaves the function without passing through the finally clause
Escape(exc) ==
    /\ sessions' = [sessions EXCEPT ![q_session].left = TRUE]
    /\ q_result' = exc
    /\ q_exc' = "none"
    /\ q_session' = 0
    /\ qpc' = "idle"

\* a client call of the try block has ended with end; ok tells the normal end
\* and next the statement after it
Continue(end, ok, next) ==
    IF end = ok
    THEN /\ qpc' = next
         /\ UNCHANGED <<q_exc, q_session, q_result, sessions>>
    ELSE IF AfterTry(end) = "finally"
    THEN /\ qpc' = "finally"
         /\ q_exc' = end
         /\ UNCHANGED <<q_session, q_result, sessions>>
    ELSE Escape(end)

\* text = path.read_text(...); cli = LspClient()
QueryCall ==
    /\ qpc = "idle"
    /\ Len(sessions) < MaxQueries
    /\ \E fn \in QueryFunctions : \E opened \in BOOLEAN :
         IF opened
         THEN /\ sessions' = Append(sessions, [fn |-> fn, queries |-> 0, shutdown |-> FALSE,
                                               left |-> FALSE])
              /\ q_session' = Len(sessions) + 1
              /\ q_fn' = fn
              /\ qpc' = "initialize"
              /\ UNCHANGED <<q_exc, q_result>>
         ELSE \* the file cannot be read or the server cannot be started
              /\ q_result' = "no_session"
              /\ q_fn' = fn
              /\ UNCHANGED <<qpc, q_exc, q_session, sessions>>
    /\ UNCHANGED beyond_query

\* cli.initialize(...)
QueryInitialize ==
    /\ qpc = "initialize"
    /\ \E end \in Ended : Continue(end, "returned", "initialized")
    /\ UNCHANGED <<q_fn, beyond_query>>

\* cli.initialized()
QueryInitialized ==
    /\ qpc = "initialized"
    /\ \E end \in NotifyEnds : Continue(end, "sent", "didOpen")
    /\ UNCHANGED <<q_fn, beyond_query>>

\* cli.notify("textDocument/didOpen", ...)
QueryDidOpen ==
    /\ qpc = "didOpen"
    /\ \E end \in NotifyEnds : Continue(end, "sent", "request")
    /\ UNCHANGED <<q_fn, beyond_query>>

\* res = cli.request("textDocument/documentSymbol" or "textDocument/definition",
\* ...), and the return statement reached
QueryRequest ==
    /\ qpc = "request"
    /\ \E end \in Ended :
         /\ qpc' = IF end = "returned" THEN "finally" ELSE AfterTry(end)
         /\ q_exc' = IF end = "returned" THEN "none" ELSE end
         /\ sessions' = [sessions EXCEPT ![q_session].queries = @ + 1,
                                         ![q_session].left = (qpc' = "idle")]
         /\ q_result' = IF qpc' = "idle" THEN end ELSE q_result
         /\ q_session' = IF qpc' = "idle" THEN 0 ELSE q_session
    /\ UNCHANGED <<q_fn, beyond_query>>

\* finally: cli.shutdown() is called
QueryFinally ==
    /\ qpc = "finally"
    /\ sessions' = [sessions EXCEPT ![q_session].shutdown = TRUE]
    /\ qpc' = "shutdown"
    /\ UNCHANGED <<q_fn, q_exc, q_session, q_result, beyond_query>>

\* shutdown has returned; the function returns, or the exception goes on
QueryLeaves ==
    /\ qpc = "shutdown"
    /\ sessions' = [sessions EXCEPT ![q_session].left = TRUE]
    /\ q_result' = IF q_exc = "none" THEN "returned" ELSE q_exc
    /\ q_exc' = "none"
    /\ q_session' = 0
    /\ qpc' = "idle"
    /\ UNCHANGED <<q_fn, beyond_query>>

QueryNext ==
    \/ QueryCall
    \/ QueryInitialize
    \/ QueryInitialized
    \/ QueryDidOpen
    \/ QueryRequest
    \/ QueryFinally
    \/ QueryLeaves

QuerySpec == LspInit /\ [][QueryNext]_vars

-----------------------------------------------------------------------------
\* C19: every session opened by document_symbols or goto_definition serves one
\* query only and has had shutdown called on it before control leaves the
\* function, on every way out (return, timeout, protocol error, failing
\* notification); no later call uses an earlier session.
C19_SessionTornDown ==
    /\ \A k \in 1..Len(sessions) :
         /\ sessions[k].left => sessions[k].shutdown
         /\ sessions[k].queries <= 1
         /\ k # q_session => sessions[k].left
    /\ q_session \in {0, Len(sessions)}
    /\ qpc = "idle" <=> q_session = 0

\* the function has been left on each way out of the try block: a return, a
\* timeout, a protocol error and a failing notification
C19_Witness ==
    /\ Len(sessions) = MaxQueries
    /\ qpc = "idle"
    /\ \E a, b \in 1..Len(sessions) :
         /\ sessions[a].queries = 1
         /\ sessions[b].queries = 0
    /\ q_result \in {"timeout", "runtime_error", "broken_pipe"}

-----------------------------------------------------------------------------
(* The subcommands that loop over input files (cli.py): cmd_focus,         *)
(* cmd_sketch, cmd_empty and cmd_minimize.  Per file: the lemma list       *)
(* (--lemma, or list_lemmas), then the work on the file.                   *)

\* the input files of one command
MaxFiles == 3

Commands == {"focus", "sketch", "empty", "minimize"}

\* how a step that talks to the server can fail
ProtocolFailures == {"timeout", "runtime_error"}

\* whether the loop body wraps the work on a file in try ... except Exception
\* (cmd_minimize does, around minimize_file; the others have no handler)
WorkIsGuarded(cmd) == cmd = "minimize"

\* no subcommand wraps list_lemmas in a handler
ListingIsGuarded(cmd) == FALSE

CliInit ==
    /\ input_lines = DocScenarioA
    /\ input_nl = TRUE
    /\ lemmas_arg = [given |-> TRUE, names |-> <<"L">>]
    /\ modular = FALSE
    /\ extract_types = DefaultTypes
    /\ MinimizeInit
    /\ SessionInit
    /\ QueryInit
    /\ FocusIdle
    /\ cli_cmd \in Commands
    /\ cli_lemma \in BOOLEAN
    /\ CliStart

\* continue with the next file
NextFile(what) ==
    /\ cli_log' = Append(cli_log, what)
    /\ cli_file' = cli_file + 1
    /\ cli_pc' = "lemmas"

\* an exception leaves the command
Abort(what) ==
    /\ cli_log' = Append(cli_log, what)
    /\ cli_file' = cli_file
    /\ cli_pc' = "aborted"

\* lemmas = [args.lemma] or list_lemmas(f); a file without lemmas is skipped
\* with a warning
CliLemmas ==
    /\ cli_pc = "lemmas"
    /\ cli_file <= MaxFiles
    /\ IF cli_lemma
       THEN cli_pc' = "process" /\ UNCHANGED <<cli_file, cli_log>>
       ELSE \E end \in {"lemmas", "no_lemmas"} \cup ProtocolFailures :
              IF end = "lemmas" THEN cli_pc' = "process" /\ UNCHANGED <<cli_file, cli_log>>
              ELSE IF end = "no_lemmas" THEN NextFile("skipped")
              ELSE IF ListingIsGuarded(cli_cmd) THEN NextFile("reported")
              ELSE Abort("raised")
    /\ UNCHANGED <<cli_cmd, cli_lemma, beyond_cli>>

\* build_focus_tasks / build_sketch_task / build_empty_body_file for the
\* lemmas of the file, or minimize_file
CliProcess ==
    /\ cli_pc = "process"
    /\ \E end \in {"ok"} \cup ProtocolFailures :
         IF end = "ok" THEN NextFile("processed")
         ELSE IF WorkIsGuarded(cli_cmd) THEN NextFile("reported")
         ELSE Abort("raised")
    /\ UNCHANGED <<cli_cmd, cli_lemma, beyond_cli>>

\* the loop is over
CliFinish ==
    /\ cli_pc = "lemmas"
    /\ cli_file > MaxFiles
    /\ cli_pc' = "done"
    /\ UNCHANGED <<cli_cmd, cli_lemma, cli_file, cli_log, beyond_cli>>

CliNext ==
    \/ CliLemmas
    \/ CliProcess
    \/ CliFinish

CliSpec == CliInit /\ [][CliNext]_vars

-----------------------------------------------------------------------------
\* C20: a protocol timeout or error raised while one input file is processed
\* (symbol listing, target lookup, site discovery) is reported and ends the
\* work on that file only: the command goes on to the remaining files, in
\* focus, sketch, empty and minimize alike.
C20_OtherFilesProcessed ==
    /\ cli_pc # "aborted"
    /\ cli_pc = "done" => Len(cli_log) = MaxFiles

\* cmd_minimize with --lemma: a failure inside minimize_file is reported and
\* the loop continues
C20_MinimizeFileGuarded ==
    (cli_cmd = "minimize" /\ cli_lemma) =>
        /\ cli_pc # "aborted"
        /\ cli_pc = "done" => Len(cli_log) = MaxFiles

-----------------------------------------------------------------------------
\* whether minimize_lemma finds no target: no symbol of that name whose
\* header reads as a lemma and has a body, in the document or, in a modular
\* run, in its rewritten form
Unresolved(doc, name) ==
    LET span0 == _find_target_lemma_range(document_symbols(doc), name, doc)
    IN  \/ span0 = None
        \/ /\ modular
           /\ LET mod_lines == _axiomatize_other_lemmas(document_symbols(doc), doc,
                                                        <<span0[3], span0[4]>>)
              IN  _find_target_lemma_range(document_symbols(mod_lines), name, mod_lines) = None

\* C21: when the target cannot be resolved, minimize_lemma makes no oracle
\* call, raises nothing and returns its input document unchanged with an error
\* report, and minimize_file goes on with the next requested unit.
C21_ResolutionMissSkipsUnit ==
    /\ \A k \in 1..Len(returned) :
         /\ all_reports[k].kind = "error" <=> Unresolved(given[k], lemmas[k])
         /\ all_reports[k].kind = "error" =>
              /\ returned[k] = given[k]
              /\ k < Len(given) => given[k + 1] = given[k]
    /\ (Finished /\ LastReport.kind = "error") =>
         /\ trials = <<>>
         /\ unit = Len(returned) + 1
         /\ fpc = (IF unit <= Len(lemmas) THEN "loop" ELSE "done")

\* a unit that could not be resolved was followed by one that was
C21_Witness ==
    /\ Len(all_reports) >= 2
    /\ all_reports[1].kind = "error"
    /\ all_reports[2].kind # "error"
    /\ given[1] # <<>>

-----------------------------------------------------------------------------
(* The functions of focus.py called on their own, on documents and         *)
(* arguments drawn from bounded sets.                                      *)

\* the rest of the program while a function of focus.py is called
ElsewhereIdle ==
    /\ input_lines = DocScenarioA
    /\ input_nl = TRUE
    /\ lemmas_arg = [given |-> TRUE, names |-> <<"L">>]
    /\ modular = FALSE
    /\ extract_types = DefaultTypes
    /\ MinimizeInit
    /\ SessionInit
    /\ QueryInit
    /\ CliMinimize

RECURSIVE SeqsUpTo(_, _)
\* the sequences over S of length at most n
SeqsUpTo(S, n) ==
    IF n = 0 THEN {<<>>}
    ELSE LET shorter == SeqsUpTo(S, n - 1)
         IN  shorter \cup {Append(q, x) : q \in {r \in shorter : Len(r) = n - 1}, x \in S}

\* the function returns
Return(fn, result) ==
    /\ f_fn = "none"
    /\ f_fn' = fn
    /\ f_out' = result
    /\ UNCHANGED <<f_lines, f_nl, f_arg>>
    /\ UNCHANGED beyond_focus

MaxBraceLines == 4

\* lines as the brace scanners see them
BraceLines ==
    {<<Stmt>>, <<Open>>, <<Close>>, <<Open, Close>>, <<Close, Open>>,
     <<Open, Open>>, <<Close, Close>>}

BraceInit ==
    /\ ElsewhereIdle
    /\ f_fn = "none"
    /\ f_lines \in SeqsUpTo(BraceLines, MaxBraceLines)
    /\ f_nl = TRUE
    /\ f_arg \in [start_line : 0..MaxBraceLines, end_line : 0..MaxBraceLines]
    /\ f_out = None

CallBraceBodyBounds ==
    Return("_brace_body_bounds", _brace_body_bounds(f_lines, f_arg.start_line, f_arg.end_line))

BraceNext == CallBraceBodyBounds

BraceSpec == BraceInit /\ [][BraceNext]_vars

\* '{' minus '}' over the lines a..k taken as one text
BraceBalance(doc, a, k) ==
    CountOpen(Flatten(Slice(doc, a, k + 1))) - CountClose(Flatten(Slice(doc, a, k + 1)))

\* the lines of the search range on which '{' outnumber '}'
OpeningLines(doc, lo, hi) ==
    {j \in lo..MinOf(hi, Len(doc) - 1) : BraceBalance(doc, j, j) > 0}

\* C22: when _brace_body_bounds returns (start, end), start is the first line
\* of the search range with more '{' than '}', start <= end <= searchEnd, and
\* the depth accumulated from start is zero at end and nonzero at every line
\* before it; it returns nothing when no such region ends within searchEnd.
C22_BodySpan ==
    f_fn = "_brace_body_bounds" =>
      LET lo == f_arg.start_line
          hi == f_arg.end_line
          firsts == {j \in OpeningLines(f_lines, lo, hi) :
                       \A i \in OpeningLines(f_lines, lo, hi) : j <= i}
          regions == {<<a, b>> \in firsts \X (0..MinOf(hi, Len(f_lines) - 1)) :
                        /\ a <= b
                        /\ BraceBalance(f_lines, a, b) = 0
                        /\ \A k \in a..(b - 1) : BraceBalance(f_lines, a, k) # 0}
      IN  IF f_out = None THEN regions = {}
          ELSE /\ f_out \in regions
               /\ f_out[1] <= f_out[2] /\ f_out[2] <= hi

\* a body found below the start of the search range and closed before its
\* end, after the depth had gone up to two
C22_Witness ==
    /\ f_fn = "_brace_body_bounds"
    /\ f_out # None
    /\ f_arg.start_line < f_out[1]
    /\ f_out[1] + 1 < f_out[2]
    /\ f_out[2] < f_arg.end_line

\* no body although a '{' outnumbers the '}' of its line in the range
C22_WitnessNone ==
    /\ f_fn = "_brace_body_bounds"
    /\ f_out = None
    /\ OpeningLines(f_lines, f_arg.start_line, f_arg.end_line) # {}

-----------------------------------------------------------------------------
(* _enumerate_sites on the body of a lemma L that follows the declarations *)
(* of a lemma A and a method M.                                            *)

MaxBodyLines == 3

\* the lines a body is made of
SiteLines ==
    {<<AssertStmt("x")>>, <<CallTo("A")>>, <<CallTo("M")>>, <<Calc, Open>>, <<Forall>>,
     <<Open>>, <<Close>>, <<Stmt>>}

\* the declarations in front of L: M's body closing on a line of its own,
\* or M written on one line right above L
Preludes ==
    {<< <<Lemma("A"), Open, Close>>, <<Method("M"), Open>>, <<Close>> >>,
     << <<Stmt>>, <<Lemma("A"), Open, Close>>, <<Method("M"), Open, Close>> >>}

InLemmaL(prelude, body_lines) == prelude \o << <<Lemma("L"), Open>> >> \o body_lines \o << <<Close>> >>

\* the lines holding a call
CallLines(doc) == {i \in 0..(Len(doc) - 1) : CALL_RE(At(doc, i))}

\* where L's body ends: the line _brace_body_bounds finds, the last line of
\* the document when it finds none
BodyEnds(doc) ==
    LET span == _brace_body_bounds(doc, 3, Len(doc) - 1)
    IN  {Len(doc) - 1} \cup (IF span = None THEN {} ELSE {span[2]})

SitesInit ==
    /\ ElsewhereIdle
    /\ f_fn = "none"
    /\ f_lines \in {InLemmaL(p, b) : p \in Preludes, b \in SeqsUpTo(SiteLines, MaxBodyLines)}
    /\ f_nl = TRUE
    /\ f_arg \in [bstart : {3}, bend : BodyEnds(f_lines),
                  extract_types : SUBSET AllTypes, resolved : SUBSET CallLines(f_lines)]
    /\ f_out = None

CallEnumerateSites ==
    Return("_enumerate_sites",
           _enumerate_sites(f_lines, f_arg.bstart, f_arg.bend, f_arg.extract_types,
                            f_arg.resolved))

SitesNext == CallEnumerateSites

SitesSpec == SitesInit /\ [][SitesNext]_vars

\* C23: the sites _enumerate_sites returns are in document order and do not
\* overlap: for consecutive sites s and t, s.startLine <= s.endLine <
\* t.startLine, whatever the body holds and whichever kinds are asked for.
C23_SitesOrdered ==
    f_fn = "_enumerate_sites" =>
      \A k \in 1..Len(f_out) :
         /\ f_out[k].line_idx <= f_out[k].end_idx
         /\ k < Len(f_out) => f_out[k].end_idx < f_out[k + 1].line_idx

\* an assertion site followed by a block site that holds an assertion
C23_Witness ==
    /\ f_fn = "_enumerate_sites"
    /\ Len(f_out) = 2
    /\ f_out[1].kind = "assert"
    /\ f_out[2].line_idx < f_out[2].end_idx
    /\ \E i \in (f_out[2].line_idx + 1)..f_out[2].end_idx : ASSERT_RE(At(f_lines, i))

\* the kind of declaration that introduces a name, "" when there is none
DeclaredAs(doc, name) ==
    LET ds == {tok \in UNION {{At(doc, j)[k] : k \in 1..Len(At(doc, j))} :
                                 j \in 0..(Len(doc) - 1)} :
                 IsDecl(tok) /\ tok.a = name}
    IN  IF ds = {} THEN "" ELSE (CHOOSE tok \in ds : TRUE).t

\* C24: a line matching the call pattern is reported as a lemma-call site only
\* if the definition query resolves the callee and the declaration it resolves
\* to is a lemma; a call that is unresolved, or resolves to a method, is never
\* reported.
C24_LemmaCallsOnly ==
    f_fn = "_enumerate_sites" =>
      \A k \in 1..Len(f_out) :
         f_out[k].kind = "lemma-call" =>
            /\ f_out[k].line_idx \in f_arg.resolved
            /\ DeclaredAs(f_lines, Callee(At(f_lines, f_out[k].line_idx))) \in {"lemma", "axlemma"}

\* the same, for a callee whose declaration is not directly followed by a
\* line reading "lemma"
C24_LemmaCallsOnlyApart ==
    f_fn = "_enumerate_sites" =>
      \A k \in 1..Len(f_out) :
         LET callee == Callee(At(f_lines, f_out[k].line_idx))
             def == DefinitionOf(f_lines, callee)
         IN  (/\ f_out[k].kind = "lemma-call"
              /\ ~\E j \in 1..Len(At(f_lines, def[1] + 1)) :
                      At(f_lines, def[1] + 1)[j].t \in {"lemma", "axlemma"}) =>
                /\ f_out[k].line_idx \in f_arg.resolved
                /\ DeclaredAs(f_lines, callee) \in {"lemma", "axlemma"}

\* a call to the lemma A reported as a site
C24_Witness ==
    /\ f_fn = "_enumerate_sites"
    /\ \E k \in 1..Len(f_out) :
          f_out[k].kind = "lemma-call" /\ Callee(At(f_lines, f_out[k].line_idx)) = "A"

-----------------------------------------------------------------------------
(* _axiomatize_other_lemmas on the symbols a server may report: any ranges *)
(* within the document, nested or repeated, and the target L.              *)

MaxOtherSymbols == 2

\* a module holding a lemma, in front of the target
DocNested ==
    << <<Module("M"), Open>>, <<Lemma("A"), Open>>, <<AssertStmt("x")>>, <<Close>>, <<Close>>,
       <<Lemma("L"), Open>>, <<AssertStmt("y")>>, <<Close>> >>

\* the target, its header on a line of its own, between two other lemmas
DocBetween ==
    << <<Lemma("A"), Open>>, <<AssertStmt("x")>>, <<Close>>,
       <<Lemma("L")>>, <<Open>>, <<AssertStmt("y")>>, <<Close>>,
       <<Lemma("B"), Open>>, <<Close>> >>

AxiomDocs == {DocNested, DocBetween}

\* flattened documentSymbol entries: a name and a line range
Symbols(doc) ==
    {sym \in [name : {"X"}, sl : 0..(Len(doc) - 1), el : 0..(Len(doc) - 1)] : sym.sl <= sym.el}

\* the entry of the target
TargetSymbol(doc) == CHOOSE sym \in {document_symbols(doc)[k] : k \in 1..Len(document_symbols(doc))} :
                         sym.name = "L"

AxiomInit ==
    /\ ElsewhereIdle
    /\ f_fn = "none"
    /\ f_lines \in AxiomDocs
    /\ f_nl = TRUE
    /\ f_arg \in [syms : {q \o <<TargetSymbol(f_lines)>> :
                            q \in SeqsUpTo(Symbols(f_lines), MaxOtherSymbols)},
                  lemma_name : {"L"}]
    /\ f_out = None

\* the span the callers resolve before they call _axiomatize_other_lemmas
TargetSpan == _find_target_lemma_range(f_arg.syms, f_arg.lemma_name, f_lines)

CallAxiomatizeOtherLemmas ==
    LET target_body == <<TargetSpan[3], TargetSpan[4]>>
        edits == SortDescending(EditsFrom(f_arg.syms, f_lines, target_body, 1))
    IN  Return("_axiomatize_other_lemmas",
               [lines |-> _axiomatize_other_lemmas(f_arg.syms, f_lines, target_body),
                edits |-> edits,
                replaced |-> Replaced(f_lines, edits)])

AxiomNext == CallAxiomatizeOtherLemmas

AxiomSpec == AxiomInit /\ [][AxiomNext]_vars

\* doc holds the lines part, contiguously
Contains(doc, part) ==
    \E off \in 0..(Len(doc) - Len(part)) : Slice(doc, off, off + Len(part)) = part

\* C25: axiomatizing all units except the target never changes the target's
\* own lines: its header and body lines appear in the rewritten document with
\* identical content and order, for every set of symbols the server reports.
C25_TargetUntouched ==
    f_fn = "_axiomatize_other_lemmas" =>
      Contains(f_out.lines, Slice(f_lines, TargetSpan[1], TargetSpan[4] + 1))

\* the same when no two reported ranges share a line
C25_TargetUntouchedDisjoint ==
    (/\ f_fn = "_axiomatize_other_lemmas"
     /\ \A j, k \in 1..Len(f_arg.syms) :
           j # k => \/ f_arg.syms[j].el < f_arg.syms[k].sl
                    \/ f_arg.syms[k].el < f_arg.syms[j].sl) =>
      Contains(f_out.lines, Slice(f_lines, TargetSpan[1], TargetSpan[4] + 1))

RECURSIVE SimultaneousFrom(_, _, _)
\* the document from line i on, each edited range [sl .. be] of the original
\* replaced by its header line
SimultaneousFrom(doc, edits, i) ==
    IF i >= Len(doc) THEN <<>>
    ELSE LET starting == {k \in 1..Len(edits) : edits[k].sl = i}
         IN  IF starting = {} THEN <<At(doc, i)>> \o SimultaneousFrom(doc, edits, i + 1)
             ELSE LET e == edits[Min(starting)]
                  IN  <<e.new_header>> \o SimultaneousFrom(doc, edits, e.be + 1)

\* C26: the document _axiomatize_other_lemmas produces is the one obtained by
\* replacing, simultaneously and against the original line indices, each
\* selected range [declaration start .. body end] by its header line: applied
\* in descending start order, no edit hits lines other than the ones it was
\* computed for, for every set of ranges the server may report, nested ones
\* included.
C26_EditsHitOwnLines ==
    f_fn = "_axiomatize_other_lemmas" =>
      /\ \A k \in 1..Len(f_out.edits) :
            f_out.replaced[k] = Slice(f_lines, f_out.edits[k].sl, f_out.edits[k].be + 1)
      /\ f_out.lines = SimultaneousFrom(f_lines, f_out.edits, 0)

\* the same when no two edited ranges share a line
C26_EditsHitOwnLinesDisjoint ==
    (/\ f_fn = "_axiomatize_other_lemmas"
     /\ \A j, k \in 1..Len(f_out.edits) :
           j # k => \/ f_out.edits[j].be < f_out.edits[k].sl
                    \/ f_out.edits[k].be < f_out.edits[j].sl) =>
      /\ \A k \in 1..Len(f_out.edits) :
            f_out.replaced[k] = Slice(f_lines, f_out.edits[k].sl, f_out.edits[k].be + 1)
      /\ f_out.lines = SimultaneousFrom(f_lines, f_out.edits, 0)

\* two lemmas around the target rewritten, the target in between
C26_AroundTarget ==
    /\ f_fn = "_axiomatize_other_lemmas"
    /\ Len(f_out.edits) = 2
    /\ f_out.edits[1].sl > TargetSpan[4]
    /\ f_out.edits[2].be < TargetSpan[1]

-----------------------------------------------------------------------------
(* build_focus_tasks on documents whose lines carry blanks in front and    *)
(* behind, with a server that reports the declarations of the document.    *)

MaxIndent == 1

\* CODE_HERE_MARKER
Marker == Tok("/*[CODE HERE]*/", "")

_mask_whole_statement(line) == SubSeq(line, 1, indent_len(line)) \o <<Marker>>

_mask_statement_block_first_line(lines_, start_idx, end_idx) ==
    [lines_ EXCEPT ![start_idx + 1] = _mask_whole_statement(At(lines_, start_idx))]

_mask_statement_block(lines_, start_idx, end_idx) ==
    IF start_idx = end_idx
    THEN [lines_ EXCEPT ![start_idx + 1] = _mask_whole_statement(At(lines_, start_idx))]
    ELSE ReplaceSlice(lines_, start_idx, end_idx + 1,
                      SubSeq(At(lines_, start_idx), 1, indent_len(At(lines_, start_idx)))
                      \o <<Marker>>)

\* str.strip on the lines of a text joined with "\n": the blanks in front of
\* the first line and behind the last one go
strip_text(text_lines) ==
    LET n == Len(text_lines)
        first == text_lines[1]
        last == text_lines[n]
    IN  IF n = 0 THEN <<>>
        ELSE IF n = 1 THEN <<strip(first)>>
        ELSE <<SubSeq(first, indent_len(first) + 1, Len(first))>>
             \o SubSeq(text_lines, 2, n - 1)
             \o <<SubSeq(last, 1, Len(strip(last)) + indent_len(last))>>

RECURSIVE TasksFrom(_, _, _, _)
\* the loop over enumerate(sites)
TasksFrom(sites_, lines_for_lsp_, nl, idx) ==
    IF idx >= Len(sites_) THEN <<>>
    ELSE LET site == At(sites_, idx)
         IN  <<[id |-> idx,
                type |-> site.kind,
                program |-> [lines |-> _mask_statement_block(lines_for_lsp_, site.line_idx,
                                                             site.end_idx),
                             nl |-> nl],
                output |-> strip_text(site.original)]>>
             \o TasksFrom(sites_, lines_for_lsp_, nl, idx + 1)

\* the tasks, with the buffer and the sites they were built from
build_focus_tasks(lines_, nl, lemma_name, modular_, extract_types_, resolved) ==
    LET span0 == _find_target_lemma_range(document_symbols(lines_), lemma_name, lines_)
        mod_lines == _axiomatize_other_lemmas(document_symbols(lines_), lines_,
                                              <<span0[3], span0[4]>>)
        lines_for_lsp_ == IF modular_ THEN mod_lines ELSE lines_
        span == _find_target_lemma_range(document_symbols(lines_for_lsp_), lemma_name,
                                         lines_for_lsp_)
        sites_ == _enumerate_sites(lines_for_lsp_, span[3], span[4], extract_types_, resolved)
    IN  IF modular_ /\ span0 = None
        THEN [tasks |-> <<>>, lines_for_lsp |-> lines_, sites |-> <<>>]
        ELSE IF span = None
        THEN [tasks |-> <<>>, lines_for_lsp |-> lines_for_lsp_, sites |-> <<>>]
        ELSE [tasks |-> TasksFrom(sites_, lines_for_lsp_, nl, 0),
              lines_for_lsp |-> lines_for_lsp_, sites |-> sites_]

\* the document with w blanks in front of every line but the first and a
\* blank behind line number trailing (none when 0)
Spaced(doc, w, trailing) ==
    [k \in 1..Len(doc) |->
        (IF k > 1 THEN [j \in 1..w |-> Blank] ELSE <<>>)
        \o doc[k]
        \o (IF k = trailing THEN <<Blank>> ELSE <<>>)]

TaskDocs ==
    {Spaced(doc, w, trailing) :
        w \in 0..MaxIndent,
        trailing \in 0..Len(DocBlocks),
        doc \in {DocScenarioA, DocTwoLemmas, DocBlocks}}

TasksInit ==
    /\ ElsewhereIdle
    /\ f_fn = "none"
    /\ f_lines \in TaskDocs
    /\ f_nl \in BOOLEAN
    /\ f_arg \in [lemma_name : {"L"}, modular : BOOLEAN, extract_types : SUBSET AllTypes,
                  answers : BOOLEAN]
    /\ f_out = None

CallBuildFocusTasks ==
    Return("build_focus_tasks",
           build_focus_tasks(f_lines, f_nl, f_arg.lemma_name, f_arg.modular,
                             f_arg.extract_types,
                             IF f_arg.answers THEN 0..Len(f_lines) ELSE {}))

TasksNext == CallBuildFocusTasks

TasksSpec == TasksInit /\ [][TasksNext]_vars

\* the program with the text put where the first marker stands
Substitute(program_lines, text_lines) ==
    LET at == Min({k \in 1..Len(program_lines) :
                     \E j \in 1..Len(program_lines[k]) : program_lines[k][j] = Marker})
        ln == program_lines[at]
        col == Min({j \in 1..Len(ln) : ln[j] = Marker})
        pre == SubSeq(ln, 1, col - 1)
        post == SubSeq(ln, col + 1, Len(ln))
        n == Len(text_lines)
    IN  SubSeq(program_lines, 1, at - 1)
        \o (IF n = 1 THEN <<pre \o text_lines[1] \o post>>
            ELSE <<pre \o text_lines[1]>> \o SubSeq(text_lines, 2, n - 1)
                 \o <<text_lines[n] \o post>>)
        \o SubSeq(program_lines, at + 1, Len(program_lines))

\* C27: round trip: putting a task's recorded output back where the mask
\* stands in its program gives the document the task was built from,
\* character for character, for single-line and multi-line sites.
C27_RoundTrip ==
    f_fn = "build_focus_tasks" =>
      \A k \in 1..Len(f_out.tasks) :
         /\ Substitute(f_out.tasks[k].program.lines, f_out.tasks[k].output) = f_out.lines_for_lsp
         /\ f_out.tasks[k].program.nl = f_nl

\* the same for the sites whose last line has no blank behind it
C27_RoundTripNoTrailingBlank ==
    f_fn = "build_focus_tasks" =>
      \A k \in 1..Len(f_out.tasks) :
         LET orig == f_out.sites[k].original
         IN  orig[Len(orig)][Len(orig[Len(orig)])] # Blank =>
               /\ Substitute(f_out.tasks[k].program.lines, f_out.tasks[k].output)
                    = f_out.lines_for_lsp
               /\ f_out.tasks[k].program.nl = f_nl

\* whether a line holds the marker
Masked(ln) == \E j \in 1..Len(ln) : ln[j] = Marker

\* C28: build_focus_tasks emits one task per discovered site, in site order
\* with ids 0..n-1; each task's program is the document with that site's line
\* span replaced by one mask line and every other line unchanged, so each
\* program holds exactly one masked site.
C28_OneTaskPerSite ==
    f_fn = "build_focus_tasks" =>
      /\ Len(f_out.tasks) = Len(f_out.sites)
      /\ \A k \in 1..Len(f_out.tasks) :
            LET task == f_out.tasks[k]
                site == f_out.sites[k]
                doc == f_out.lines_for_lsp
                prog == task.program.lines
            IN  /\ task.id = k - 1
                /\ task.type = site.kind
                /\ Len(prog) = Len(doc) - (site.end_idx - site.line_idx)
                /\ SubSeq(prog, 1, site.line_idx) = SubSeq(doc, 1, site.line_idx)
                /\ SubSeq(prog, site.line_idx + 2, Len(prog))
                     = SubSeq(doc, site.end_idx + 2, Len(doc))
                /\ Masked(prog[site.line_idx + 1])
                /\ Cardinality({j \in 1..Len(prog) : Masked(prog[j])}) = 1

\* tasks for four sites of a modular run, a block among them
C28_Witness ==
    /\ f_fn = "build_focus_tasks"
    /\ Len(f_out.tasks) = 4
    /\ \E k \in 1..4 : f_out.sites[k].line_idx < f_out.sites[k].end_idx
    /\ f_out.tasks[4].id = 3

\* a task of a modular run on a document whose other lemma was rewritten
C28_ModularTask ==
    /\ f_fn = "build_focus_tasks"
    /\ f_arg.modular
    /\ f_out.lines_for_lsp # f_lines
    /\ Len(f_out.tasks) = 2

-----------------------------------------------------------------------------
\* C29: every rewrite keeps the trailing-line-terminator flag: each document
\* the system emits (task programs, axiomatized file, empty-body file, the
\* per-unit temporary documents and the final file minimize_file writes) ends
\* with a line terminator exactly when the original text did.
C29_TerminatorKept ==
    output.written => output.nl = input_nl

\* the programs of the tasks build_focus_tasks returns keep the flag
C29_TaskProgramsKeepFlag ==
    f_fn = "build_focus_tasks" =>
      \A k \in 1..Len(f_out.tasks) : f_out.tasks[k].program.nl = f_nl

-----------------------------------------------------------------------------
\* the sites other than the one tried whose lines are still in the working
\* document of the k-th trial: the ones not removed by an earlier trial
Present(k) ==
    {j \in 1..Len(trials[k].sites) :
        /\ j # trials[k].site
        /\ ~\E i \in 2..(k - 1) : trials[i].site = j /\ trials[i].pass}

\* C30: position bookkeeping of the greedy phase: at the moment each site is
\* tried, the lines [startLine..endLine] of the working document are the lines
\* of that site's recorded original text, after any sequence of earlier
\* accepted and rejected removals; an accepted removal never deletes a line
\* of another site or of no site.
C30_PositionBookkeeping ==
    \A k \in 2..Len(trials) :
       LET t == trials[k]
           s == t.sites[t.site]
       IN  /\ Slice(t.working, s.line_idx, s.end_idx + 1) = s.original
           /\ t.candidate = WithoutSpan(t.working, s.line_idx, s.end_idx)
           /\ Len(t.candidate) = Len(t.working) - Len(s.original)
           /\ \A j \in Present(k) :
                 LET o == t.sites[j]
                 IN  /\ o.end_idx < s.line_idx \/ s.end_idx < o.line_idx
                     /\ Slice(t.working, o.line_idx, o.end_idx + 1) = o.original
                     /\ t.pass =>
                          \E off \in 0..Len(t.candidate) :
                             Slice(t.candidate, off, off + Len(o.original)) = o.original

\* a site tried after a site below it was kept and one between them removed
C30_Witness ==
    \E i, j, k \in 2..Len(trials) :
       /\ i < j /\ j < k
       /\ ~trials[i].pass
       /\ trials[j].pass
       /\ SpanLength(trials[j].sites[trials[j].site]) > 1
       /\ trials[k].sites[trials[i].site] # discovered[trials[i].site]

-----------------------------------------------------------------------------
\* the lines of doc in front of the body span and behind it are, in this
\* order, the first and the last lines of result
FramesBody(doc, span, result) ==
    LET behind == Len(doc) - span[4] - 1
    IN  /\ Len(result) >= span[3] + behind
        /\ Slice(result, 0, span[3]) = Slice(doc, 0, span[3])
        /\ Slice(result, Len(result) - behind, Len(result)) = Slice(doc, span[4] + 1, Len(doc))

\* C31: minimize_lemma changes nothing outside the target's body: in modular
\* and non-modular runs and for every oracle, every line of the input document
\* outside the target's body span is unchanged and in the same order in the
\* returned document, so the document threaded to the next unit still holds
\* every other unit's body.
C31_OutsideBodyUnchanged ==
    \A k \in 1..Len(returned) :
       LET span == _find_target_lemma_range(document_symbols(given[k]), lemmas[k], given[k])
       IN  IF span = None THEN returned[k] = given[k]
           ELSE FramesBody(given[k], span, returned[k])

\* the same for the runs that are not modular
C31_OutsideBodyUnchangedNonModular ==
    ~modular => C31_OutsideBodyUnchanged

\* the same for the runs that are not modular and whose sites end within the
\* body span
C31_OutsideBodyUnchangedSitesInside ==
    (/\ ~modular
     /\ \A j \in 1..Len(discovered) : discovered[j].end_idx <= body[2]) =>
       (Finished =>
          LET span == _find_target_lemma_range(document_symbols(LastGiven), lemmas[unit - 1],
                                               LastGiven)
          IN  IF span = None THEN LastReturned = LastGiven
              ELSE FramesBody(LastGiven, span, LastReturned))

-----------------------------------------------------------------------------
\* the text the oracle reads from a file written as "\n".join(doc) + "\n"
TextOf(doc) == IF doc = <<>> THEN << <<>> >> ELSE doc

\* the oracle calls of the unit are those of a function of the document that
\* accepts the document the unit was given
OracleIsFunction ==
    /\ \A i, j \in 1..Len(trials) :
          TextOf(trials[i].candidate) = TextOf(trials[j].candidate)
             => trials[i].pass = trials[j].pass
    /\ \A i \in 1..Len(trials) :
          TextOf(trials[i].candidate) = TextOf(LastGiven) => trials[i].pass

\* the oracle is known to accept the document: it is the one the unit was
\* given or a candidate the oracle passed.  Any other document is rejected by
\* some function that agrees with every call made.
KnownAccepted(doc) ==
    \/ TextOf(doc) = TextOf(LastGiven)
    \/ \E i \in 1..Len(trials) : trials[i].pass /\ TextOf(trials[i].candidate) = TextOf(doc)

\* C32: provided the oracle is a deterministic function of the document and
\* accepts the document minimize_lemma is given, every document
\* minimize_lemma returns (empty-body, no-sites and greedy result, modular or
\* not) is accepted by the oracle.
C32_ReturnedIsAccepted ==
    (Finished /\ OracleIsFunction) => KnownAccepted(LastReturned)

\* the same for the runs that are not modular
C32_ReturnedIsAcceptedNonModular ==
    (Finished /\ OracleIsFunction /\ ~modular) => KnownAccepted(LastReturned)

\* the same for the results that follow an accepted candidate
C32_ReturnedIsAcceptedAfterPass ==
    (Finished /\ OracleIsFunction /\ \E i \in 1..Len(trials) : trials[i].pass)
        => KnownAccepted(LastReturned)

-----------------------------------------------------------------------------
\* C33: every site _enumerate_sites returns for a body span [bstart, bend]
\* lies inside it: bstart <= startLine <= endLine <= bend, also for
\* calculation and quantifier blocks whose brace search and lookahead start
\* near the end of the body.
C33_SitesInsideBody ==
    f_fn = "_enumerate_sites" =>
      \A k \in 1..Len(f_out) :
         /\ f_arg.bstart <= f_out[k].line_idx
         /\ f_out[k].line_idx <= f_out[k].end_idx
         /\ f_out[k].end_idx <= f_arg.bend

\* every site starts inside the span
C33_SitesStartInsideBody ==
    f_fn = "_enumerate_sites" =>
      \A k \in 1..Len(f_out) :
         f_arg.bstart <= f_out[k].line_idx /\ f_out[k].line_idx <= f_arg.bend

\* the sites of one line lie inside the span, and so does a calculation
\* block whose braces balance on a line of the span
C33_SitesInsideBalancedBody ==
    f_fn = "_enumerate_sites" =>
      \A k \in 1..Len(f_out) :
         (\/ f_out[k].kind \in {"assert", "lemma-call"}
          \/ /\ f_out[k].kind = "calc"
             /\ \E j \in f_out[k].line_idx..f_arg.bend :
                   BraceBalance(f_lines, f_out[k].line_idx, j) = 0) =>
            /\ f_arg.bstart <= f_out[k].line_idx
            /\ f_out[k].end_idx <= f_arg.bend

-----------------------------------------------------------------------------
(* The listener at the end of the server's output.                         *)

\* the server closes its stdout and keeps running
ServerClosesStdout ==
    /\ srv_alive /\ srv_out_open
    /\ srv_out_open' = FALSE
    /\ UNCHANGED <<srv_alive, srv_err_open, err_buf, inbox, wire, sent, listener_side, _rx,
                   _notif, caller_side, calls, drain_side>>
    /\ UNCHANGED beyond_lsp

\* everything a server can write and both ways its output can end
StreamNext ==
    \/ ServerRespond
    \/ ServerSendsOther
    \/ ServerClosesStdout
    \/ ServerExit
    \/ ListenerRead
    \/ ListenerEof
    \/ \E c \in Callers : RequestSend(c)
    \/ \E c \in Callers : RequestPoll(c)
    \/ \E c \in Callers : RequestExpire(c)
    \/ \E c \in Callers : RequestTimeout(c)
    \/ \E c \in Callers : CallEnds(c)

StreamSpec == LspInit /\ [][StreamNext]_vars /\ LspFairness

\* the listener has returned at the end of the closed stream
StoppedAtEof == reader = "stopped" /\ ~srv_out_open /\ wire = <<>>

\* how a call ends that gives no result
EndedWithoutResult == Ended \ {"returned"}

\* the stopped listener stays stopped and puts nothing more on the queues
ListenerStaysStopped ==
    reader = "stopped" =>
       /\ reader' = "stopped"
       /\ decoded' = decoded
       /\ Len(_rx') <= Len(_rx)
       /\ Len(_notif') <= Len(_notif)

\* C34: when the server's output stream closes the listener stops silently:
\* it raises nothing, enqueues nothing further and never reads again; a
\* request issued on the session afterwards never obtains a result and ends
\* with an error or the timeout.
C34_ClosedStreamEndsCalls ==
    /\ [][ListenerStaysStopped]_vars
    /\ \A n \in 1..(MaxRequests + 1) : \A c \in Callers :
         [](StoppedAtEof /\ next_id = n =>
              /\ [](req_id[c] >= n => cpc[c] # "returned")
              /\ [](cpc[c] = "waiting" /\ req_id[c] >= n => <>(cpc[c] \in EndedWithoutResult)))

\* the listener part of C34
C34_ListenerStaysStopped == [][ListenerStaysStopped]_vars

\* no request issued after the listener has stopped obtains a result
C34_NoLateResult ==
    \A n \in 1..(MaxRequests + 1) : \A c \in Callers :
       [](StoppedAtEof /\ next_id = n => [](req_id[c] >= n => cpc[c] # "returned"))

\* such a request ends with an error or the timeout once stderr is closed too
C34_EndsOnceStderrClosed ==
    \A n \in 1..(MaxRequests + 1) : \A c \in Callers :
       [](StoppedAtEof /\ ~srv_err_open /\ next_id = n =>
            [](cpc[c] = "waiting" /\ req_id[c] >= n => <>(cpc[c] \in EndedWithoutResult)))

\* a request waits on a session whose listener stopped at the end of the
\* stream before the request was sent
C34_Witness ==
    \E c \in Callers :
       /\ StoppedAtEof /\ srv_alive /\ srv_err_open
       /\ cpc[c] = "expired" /\ decoded = <<>> /\ sent = 0

-----------------------------------------------------------------------------
\* C35: the listener stops reading only when the server's output stream is
\* closed: after a frame received on an open stream, also one whose payload is
\* no JSON, one with content length zero or one without a Content-Length
\* field, it reads the next frame.
C35_StopsOnlyAtClosedStream == reader = "stopped" => ~srv_out_open

\* the listener stops at the end of the stream or at a frame that announces
\* no bytes, and at no other frame
C35_StopsAtEofOrEmptyFrame ==
    [][reader = "running" /\ reader' = "stopped" =>
          \/ wire = <<>> /\ ~srv_out_open
          \/ wire # <<>> /\ Head(wire).clen # "ok"]_vars

\* a frame that is no JSON is dropped and the listener reads on
C35_InvalidJsonReadsOn ==
    [][wire # <<>> /\ wire' = Tail(wire) /\ Head(wire).clen = "ok" => reader' = reader]_vars

\* the listener has stopped while the server still writes
C35_Witness == reader = "stopped" /\ srv_out_open /\ srv_alive /\ wire # <<>>

-----------------------------------------------------------------------------
\* the temporary documents written so far
TemporariesWritten == {p \in fs_writes : p.kind \in {"unit", "modular", "candidate"}}

\* C36: no temporary document outlives the operation that created it: when
\* minimize_lemma and minimize_file return or raise (oracle pass, oracle fail,
\* resolution miss, an exception of discovery) every candidate file, modular
\* file and per-unit file created has been deleted, a candidate file is gone
\* when its trial is over, and the input file is never written.
C36_NoTemporaryOutlives ==
    /\ mpc = "idle" => tmp_files = {}
    /\ mpc = "GreedyReduce" => \A p \in tmp_files : p.kind # "candidate"
    /\ tmp_files \subseteq TemporariesWritten
    /\ InputPath \notin fs_writes

\* a modular run has ended after an accepted and a rejected trial; files of
\* the three kinds and the output were written and no temporary is left
C36_Witness ==
    /\ fpc = "done" /\ modular
    /\ {p.kind : p \in fs_writes} = {"unit", "modular", "candidate", "output"}
    /\ \E j, k \in 1..Len(trials) : trials[j].pass /\ ~trials[k].pass
    /\ tmp_files = {}

\* a run has ended with an exception of discovery and no temporary is left
C36_WitnessRaised ==
    /\ fpc = "raised" /\ modular
    /\ {p.kind : p \in fs_writes} = {"unit", "modular", "candidate"}
    /\ tmp_files = {}

\* a resolution miss has ended a modular unit with its per-unit file deleted
C36_WitnessMiss ==
    /\ fpc = "done" /\ modular
    /\ all_reports # <<>> /\ all_reports[Len(all_reports)].kind = "error"
    /\ \E p \in fs_writes : p.kind = "unit"
    /\ tmp_files = {}

====
